---------------------------- MODULE Spec2Model ----------------------------
(***************************************************************************)
(* Model of the Sherlock Homes risk scoring core: the five piecewise risk  *)
(* curves, the modifier layer and RiskScorer.score_application            *)
(* (src/risk_scorer.py), with the feature structs and derived-score       *)
(* formulas of src/feature_extractor.py.                                  *)
(*                                                                         *)
(* Arithmetic is exact fixed point.  Python floats are modelled by exact   *)
(* decimals:                                                               *)
(*   - percentages (dti, ltv) and employment years are carried in tenths,  *)
(*   - risk components in thousandths (Milli),                             *)
(*   - derived 0-1 scores in ten-thousandths (ScoreOne = 1.0),             *)
(*   - base score, modifiers and final score in hundred-thousandths (Unit).*)
(***************************************************************************)
EXTENDS Integers, Sequences, FiniteSets, TLC

VARIABLES
    pc,            \* position of the caller: "start" before the call, "done" after
    fn,            \* which function a single-function specification applies
    arg,           \* its argument (a number, or the three analysis texts)
    val,           \* its result (a number, or the CombinedFeatures returned)
    client,        \* RiskScorer.client: "configured" or "none"
    application,   \* the application record handed to score_application
    professional,  \* professional_features argument ([given, f])
    lifestyle,     \* lifestyle_features argument
    social,        \* social_features argument
    outcome,       \* "none", "returned" or "raised"
    report,        \* the RiskReport returned
    first,         \* SpecCalls: what the first of two calls returned
    _applications  \* storage._applications: application id -> stored record

vars == <<pc, fn, arg, val, client, application, professional, lifestyle,
          social, outcome, report, first, _applications>>

-----------------------------------------------------------------------------
(* Fixed-point units *)

Milli == 10 ^ 3
ScoreOne == 10 ^ 4
Unit == 10 ^ 5

Max(a, b) == IF a >= b THEN a ELSE b
Min(a, b) == IF a <= b THEN a ELSE b
Abs(a) == IF a >= 0 THEN a ELSE 0 - a

\* Python round(): nearest integer, ties to even.  n / d with d > 0.
RoundHalfEven(n, d) ==
    LET q == n \div d
        r == n % d
    IN  IF 2 * r < d THEN q
        ELSE IF 2 * r > d THEN q + 1
        ELSE IF q % 2 = 0 THEN q ELSE q + 1

-----------------------------------------------------------------------------
(* Bounds of the model *)

\* how far outside the documented domains the sampled inputs go
Slack == 300
\* largest percentage (dti, ltv) sampled
MaxPct == 1000
\* largest employment length sampled, in years
MaxYears == 40
\* largest reserves sampled, in months
MaxMonths == 36

\* documented credit score domain (src/risk_scorer.py docstring)
CreditLo == 300
CreditHi == 850

-----------------------------------------------------------------------------
(* RiskScorer: base score calculations.  Results in thousandths. *)

\* a curve without the 740-799 band
calculate_credit_risk_NoVeryGoodBand(credit_score) ==
    IF credit_score >= 800 THEN 5000 + (850 - credit_score) * 100
    ELSE IF credit_score >= 670 THEN 20000 + (739 - credit_score) * 220
    ELSE IF credit_score >= 580 THEN 35000 + (669 - credit_score) * 220
    ELSE 55000 + (579 - credit_score) * 90

calculate_credit_risk(credit_score) ==
    IF credit_score >= 800 THEN 5000 + (850 - credit_score) * 100
    ELSE IF credit_score >= 740 THEN 10000 + (799 - credit_score) * 170
    ELSE IF credit_score >= 670 THEN 20000 + (739 - credit_score) * 220
    ELSE IF credit_score >= 580 THEN 35000 + (669 - credit_score) * 220
    ELSE 55000 + (579 - credit_score) * 90

\* a DTI curve whose last segment is not capped
calculate_dti_risk_Uncapped(dti) ==
    IF dti <= 200 THEN 5000 + dti * 50
    ELSE IF dti <= 360 THEN 15000 + (dti - 200) * 94
    ELSE IF dti <= 430 THEN 30000 + (dti - 360) * 286
    ELSE IF dti <= 500 THEN 50000 + (dti - 430) * 286
    ELSE 70000 + (dti - 500) * 200

\* dti in tenths of a percent
calculate_dti_risk(dti) ==
    IF dti <= 200 THEN 5000 + dti * 50
    ELSE IF dti <= 360 THEN 15000 + (dti - 200) * 94
    ELSE IF dti <= 430 THEN 30000 + (dti - 360) * 286
    ELSE IF dti <= 500 THEN 50000 + (dti - 430) * 286
    ELSE Min(70000 + (dti - 500) * 200, 90000)

\* ltv in tenths of a percent
calculate_ltv_risk(ltv) ==
    IF ltv <= 600 THEN 5000 + ltv * 17
    ELSE IF ltv <= 800 THEN 15000 + (ltv - 600) * 50
    ELSE IF ltv <= 900 THEN 25000 + (ltv - 800) * 200
    ELSE IF ltv <= 950 THEN 45000 + (ltv - 900) * 400
    ELSE Min(65000 + (ltv - 950) * 400, 85000)

\* years in tenths of a year
calculate_employment_risk(years) ==
    IF years >= 50 THEN 10000 + Max(0, 100 - years) * 100
    ELSE IF years >= 20 THEN 20000 + (50 - years) * 667
    ELSE IF years >= 10 THEN 40000 + (20 - years) * 1500
    ELSE 55000 + (10 - years) * 1500

\* whole months
calculate_reserves_risk(months) ==
    IF months >= 12 THEN 5000 + Max(0, 24 - months) * 830
    ELSE IF months >= 6 THEN 15000 + (12 - months) * 2500
    ELSE IF months >= 3 THEN 30000 + (6 - months) * 5000
    ELSE IF months >= 1 THEN 45000 + (3 - months) * 7500
    ELSE 60000 + (1 - months) * 15000

-----------------------------------------------------------------------------
(* Feature structs (src/feature_extractor.py dataclasses).  Fields on a    *)
(* 0-1 scale are in hundredths; the derived scores are in ten-thousandths. *)

\* a clamp that forgets the floor
Clamp01_NoFloor(score) == Min(ScoreOne, score)

\* max(0.0, min(1.0, score))
Clamp01(score) == Max(0, Min(ScoreOne, score))

\* ProfessionalFeatures()
ProfessionalFeatures ==
    [ current_job_months |-> 0, total_experience_years |-> 0,
      jobs_last_5_years |-> 0, career_trajectory |-> 3,
      education_level |-> 0, has_advanced_degree |-> FALSE,
      industry_stability |-> 50, industry |-> "",
      profile_completeness |-> 50, has_recommendations |-> FALSE,
      connection_count_tier |-> 2, employment_gaps |-> 0,
      frequent_job_changes |-> FALSE, profile_inconsistencies |-> 0,
      job_stability_score |-> 5000, professional_credibility_score |-> 5000 ]

\* LifestyleFeatures()
LifestyleFeatures ==
    [ lifestyle_level |-> 3, apparent_spending_vs_income |-> 50,
      luxury_items_visible |-> FALSE, frequent_expensive_travel |-> FALSE,
      vehicle_tier |-> 2, housing_quality_apparent |-> 2,
      appears_homeowner |-> FALSE, location_cost_of_living |-> 50,
      travel_frequency |-> 2, expensive_hobbies |-> FALSE,
      gambling_indicators |-> FALSE, substance_use_indicators |-> FALSE,
      financial_responsibility_signals |-> 0,
      financial_irresponsibility_signals |-> 0,
      lifestyle_stability_score |-> 5000, income_lifestyle_alignment |-> 5000 ]

\* SocialConnectednessFeatures()
SocialConnectednessFeatures ==
    [ total_followers_tier |-> 2, engagement_rate |-> 50,
      authentic_connections |-> 50, relationship_status |-> 0,
      family_presence_in_content |-> 50, appears_stable_relationship |-> FALSE,
      has_children |-> FALSE, community_involvement |-> 50,
      group_memberships |-> 0, volunteer_charity_involvement |-> FALSE,
      religious_community_ties |-> FALSE, long_term_friendships_visible |-> FALSE,
      local_community_ties |-> 50, geographic_stability |-> 50,
      social_isolation_indicators |-> FALSE, conflict_drama_indicators |-> 0,
      relationship_instability_signals |-> 0,
      social_support_score |-> 5000, community_rootedness_score |-> 5000,
      relationship_stability_score |-> 5000 ]

(* FeatureExtractor: derived score calculations *)

calculate_job_stability_score(features) ==
    LET tenure_bonus == Min(features.current_job_months, 60) * 50
        hopping_penalty ==
            IF features.jobs_last_5_years > 3
            THEN Min((features.jobs_last_5_years - 3) * 1000, 3000) ELSE 0
        gap_penalty == Min(features.employment_gaps * 1000, 2000)
        trajectory_adjustment == (features.career_trajectory - 3) * 500
    IN  Clamp01(5000 + tenure_bonus - hopping_penalty - gap_penalty
                + trajectory_adjustment)

calculate_professional_credibility_score(features) ==
    Clamp01(features.education_level * 500
            + Min(features.total_experience_years, 20) * 125
            + features.profile_completeness * 20
            + features.connection_count_tier * 500
            + (IF features.has_recommendations THEN 1000 ELSE 0)
            + features.industry_stability * 5)

calculate_lifestyle_stability_score(features) ==
    Clamp01(5000
            - (IF features.gambling_indicators THEN 2000 ELSE 0)
            - (IF features.substance_use_indicators THEN 1500 ELSE 0)
            - (IF features.apparent_spending_vs_income > 60
               THEN (features.apparent_spending_vs_income - 60) * 50 ELSE 0)
            + Min(features.financial_responsibility_signals * 500, 2000)
            - Min(features.financial_irresponsibility_signals * 500, 2000)
            + (IF features.appears_homeowner THEN 1000 ELSE 0))

calculate_income_lifestyle_alignment(features) ==
    Clamp01(ScoreOne - Abs(features.apparent_spending_vs_income - 50) * 200
            - (IF features.luxury_items_visible
                  /\ features.apparent_spending_vs_income > 60
               THEN 2000 ELSE 0)
            - (IF features.frequent_expensive_travel
                  /\ features.apparent_spending_vs_income > 60
               THEN 1500 ELSE 0))

calculate_social_support_score(features) ==
    Clamp01(features.family_presence_in_content * 20
            + features.community_involvement * 20
            + (IF features.appears_stable_relationship THEN 1500 ELSE 0)
            + (IF features.long_term_friendships_visible THEN 1500 ELSE 0)
            + (IF features.volunteer_charity_involvement THEN 1000 ELSE 0)
            + features.authentic_connections * 10
            - (IF features.social_isolation_indicators THEN 2000 ELSE 0)
            - Min(features.conflict_drama_indicators * 500, 1500))

calculate_community_rootedness_score(features) ==
    Clamp01(features.local_community_ties * 30
            + features.geographic_stability * 25
            + features.community_involvement * 20
            + Min(features.group_memberships, 10) * 150
            + (IF features.religious_community_ties THEN 1000 ELSE 0))

calculate_relationship_stability_score(features) ==
    Clamp01(5000
            + (IF features.appears_stable_relationship THEN 2000 ELSE 0)
            + (IF features.relationship_status >= 3 THEN 1000 ELSE 0)
            + (IF features.has_children THEN 500 ELSE 0)
            - Min(features.relationship_instability_signals * 1000, 3000)
            - (IF features.social_isolation_indicators THEN 1000 ELSE 0))

-----------------------------------------------------------------------------
(* FeatureExtractor._build_*_features: from an extraction record, a record *)
(* that holds a subset of the schema's keys, to a feature struct.          *)

\* dict.get(key, default)
Get(d, key, default) == IF key \in DOMAIN d THEN d[key] ELSE default

trajectory_map(name) ==
    CASE name = "declining" -> 1 [] name = "unstable" -> 2
      [] name = "stable" -> 3 [] name = "growing" -> 4
      [] name = "rapidly_growing" -> 5 [] OTHER -> 3

education_map(name) ==
    CASE name = "unknown" -> 0 [] name = "high_school" -> 1
      [] name = "associate" -> 2 [] name = "bachelor" -> 3
      [] name = "master" -> 4 [] name = "phd" -> 5 [] OTHER -> 0

\* FeatureExtractor.INDUSTRY_STABILITY, in hundredths
INDUSTRY_STABILITY(industry) ==
    CASE industry = "healthcare" -> 90 [] industry = "government" -> 95
      [] industry = "education" -> 85 [] industry = "finance" -> 80
      [] industry = "technology" -> 70 [] industry = "consulting" -> 60
      [] industry = "retail" -> 50 [] industry = "hospitality" -> 40
      [] industry = "entertainment" -> 45 [] industry = "construction" -> 55
      [] industry = "manufacturing" -> 65 [] industry = "real estate" -> 60
      [] industry = "energy" -> 70 [] industry = "agriculture" -> 60
      [] industry = "transportation" -> 65 [] industry = "legal" -> 85
      [] industry = "nonprofit" -> 70 [] OTHER -> 50

\* low / medium / high to 1..3 (connection_map, tier_map)
tier_map(name) ==
    CASE name = "low" -> 1 [] name = "medium" -> 2 [] name = "high" -> 3
      [] OTHER -> 2

\* a builder that leaves the derived scores at the struct defaults
build_professional_features_NoDerived(extracted) ==
    [ ProfessionalFeatures EXCEPT
        !.current_job_months = Get(extracted, "current_job_months", 0),
        !.total_experience_years = Get(extracted, "total_experience_years", 0),
        !.jobs_last_5_years = Get(extracted, "jobs_last_5_years", 1),
        !.career_trajectory =
            trajectory_map(Get(extracted, "career_trajectory", "stable")),
        !.education_level =
            education_map(Get(extracted, "education_level", "unknown")),
        !.employment_gaps = Get(extracted, "employment_gaps", 0),
        !.frequent_job_changes = Get(extracted, "jobs_last_5_years", 1) > 3 ]

build_professional_features(extracted) ==
    LET raw ==
          [ ProfessionalFeatures EXCEPT
              !.current_job_months = Get(extracted, "current_job_months", 0),
              !.total_experience_years =
                  Get(extracted, "total_experience_years", 0),
              !.jobs_last_5_years = Get(extracted, "jobs_last_5_years", 1),
              !.career_trajectory =
                  trajectory_map(Get(extracted, "career_trajectory", "stable")),
              !.education_level =
                  education_map(Get(extracted, "education_level", "unknown")),
              !.has_advanced_degree =
                  education_map(Get(extracted, "education_level", "unknown")) >= 4,
              !.industry = Get(extracted, "industry", ""),
              !.industry_stability =
                  INDUSTRY_STABILITY(Get(extracted, "industry", "")),
              !.profile_completeness =
                  Get(extracted, "profile_completeness", 50),
              !.has_recommendations =
                  Get(extracted, "has_recommendations", FALSE),
              !.connection_count_tier =
                  tier_map(Get(extracted, "connection_count", "medium")),
              !.employment_gaps = Get(extracted, "employment_gaps", 0),
              !.frequent_job_changes =
                  Get(extracted, "jobs_last_5_years", 1) > 3,
              !.profile_inconsistencies =
                  Len(Get(extracted, "red_flags", <<>>)) ]
    IN  [ raw EXCEPT
            !.job_stability_score = calculate_job_stability_score(raw),
            !.professional_credibility_score =
                calculate_professional_credibility_score(raw) ]

lifestyle_map(name) ==
    CASE name = "frugal" -> 1 [] name = "modest" -> 2
      [] name = "comfortable" -> 3 [] name = "affluent" -> 4
      [] name = "lavish" -> 5 [] OTHER -> 3

spending_map(name) ==
    CASE name = "underspending" -> 20 [] name = "balanced" -> 50
      [] name = "overspending" -> 80 [] OTHER -> 50

vehicle_map(name) ==
    CASE name = "economy" -> 1 [] name = "standard" -> 2
      [] name = "luxury" -> 3 [] OTHER -> 2

housing_map(name) ==
    CASE name = "modest" -> 1 [] name = "average" -> 2
      [] name = "upscale" -> 3 [] OTHER -> 2

travel_map(name) ==
    CASE name = "rarely" -> 1 [] name = "occasionally" -> 2
      [] name = "frequently" -> 3 [] OTHER -> 2

build_lifestyle_features(extracted) ==
    LET raw ==
          [ LifestyleFeatures EXCEPT
              !.lifestyle_level =
                  lifestyle_map(Get(extracted, "lifestyle_level", "comfortable")),
              !.apparent_spending_vs_income =
                  spending_map(Get(extracted, "spending_vs_income", "balanced")),
              !.luxury_items_visible =
                  Get(extracted, "luxury_items_visible", FALSE),
              !.frequent_expensive_travel =
                  Get(extracted, "frequent_expensive_travel", FALSE),
              !.vehicle_tier =
                  vehicle_map(Get(extracted, "vehicle_type", "standard")),
              !.housing_quality_apparent =
                  housing_map(Get(extracted, "housing_quality", "average")),
              !.appears_homeowner = Get(extracted, "appears_homeowner", FALSE),
              !.travel_frequency =
                  travel_map(Get(extracted, "travel_frequency", "occasionally")),
              !.expensive_hobbies = Get(extracted, "expensive_hobbies", FALSE),
              !.gambling_indicators =
                  Get(extracted, "gambling_indicators", FALSE),
              !.substance_use_indicators =
                  Get(extracted, "substance_use_indicators", FALSE),
              !.financial_responsibility_signals =
                  Len(Get(extracted, "financial_responsibility_signals", <<>>)),
              !.financial_irresponsibility_signals =
                  Len(Get(extracted, "financial_irresponsibility_signals", <<>>)) ]
    IN  [ raw EXCEPT
            !.lifestyle_stability_score =
                calculate_lifestyle_stability_score(raw),
            !.income_lifestyle_alignment =
                calculate_income_lifestyle_alignment(raw) ]

engagement_map(name) ==
    CASE name = "low" -> 20 [] name = "medium" -> 50 [] name = "high" -> 80
      [] OTHER -> 50

relationship_map(name) ==
    CASE name = "unknown" -> 0 [] name = "single" -> 1
      [] name = "in_relationship" -> 2 [] name = "married" -> 3
      [] name = "married_with_children" -> 4 [] OTHER -> 0

family_map(name) ==
    CASE name = "none" -> 10 [] name = "occasional" -> 50
      [] name = "frequent" -> 90 [] OTHER -> 50

community_map(name) ==
    CASE name = "none" -> 0 [] name = "low" -> 30 [] name = "medium" -> 60
      [] name = "high" -> 90 [] OTHER -> 30

ties_map(name) ==
    CASE name = "weak" -> 20 [] name = "moderate" -> 50
      [] name = "strong" -> 80 [] OTHER -> 50

\* a builder that hands back the dataclass defaults
build_social_features_DataclassDefaults(extracted) ==
    SocialConnectednessFeatures

build_social_features(extracted) ==
    LET raw ==
          [ SocialConnectednessFeatures EXCEPT
              !.total_followers_tier =
                  tier_map(Get(extracted, "follower_tier", "medium")),
              !.engagement_rate =
                  engagement_map(Get(extracted, "engagement_quality", "medium")),
              !.authentic_connections =
                  IF Get(extracted, "authentic_connections", TRUE)
                  THEN 80 ELSE 30,
              !.relationship_status =
                  relationship_map(Get(extracted, "relationship_status", "unknown")),
              !.family_presence_in_content =
                  family_map(Get(extracted, "family_presence", "occasional")),
              !.appears_stable_relationship =
                  Get(extracted, "appears_stable_relationship", FALSE),
              !.has_children = Get(extracted, "has_children", FALSE),
              !.community_involvement =
                  community_map(Get(extracted, "community_involvement", "low")),
              !.group_memberships = Get(extracted, "group_memberships", 0),
              !.volunteer_charity_involvement =
                  Get(extracted, "volunteer_charity", FALSE),
              !.religious_community_ties =
                  Get(extracted, "religious_community", FALSE),
              !.long_term_friendships_visible =
                  Get(extracted, "long_term_friendships", FALSE),
              !.local_community_ties =
                  ties_map(Get(extracted, "local_ties", "moderate")),
              !.geographic_stability =
                  IF Get(extracted, "geographic_stability", TRUE)
                  THEN 80 ELSE 30,
              !.social_isolation_indicators =
                  Get(extracted, "social_isolation_indicators", FALSE),
              !.conflict_drama_indicators =
                  Get(extracted, "conflict_indicators", 0),
              !.relationship_instability_signals =
                  Get(extracted, "relationship_instability", 0) ]
    IN  [ raw EXCEPT
            !.social_support_score = calculate_social_support_score(raw),
            !.community_rootedness_score =
                calculate_community_rootedness_score(raw),
            !.relationship_stability_score =
                calculate_relationship_stability_score(raw) ]

-----------------------------------------------------------------------------
(* RiskScorer constants (src/risk_scorer.py) *)

\* TRADITIONAL_WEIGHTS, in hundredths
TRADITIONAL_WEIGHTS ==
    [ credit_score |-> 35, dti |-> 25, ltv |-> 20, employment |-> 10,
      reserves |-> 10 ]

\* the three social weights raised to the lifestyle weight, 1.5
MODIFIER_WEIGHTS_SocialAsLifestyle ==
    [ professional_credibility |-> 20, job_stability |-> 20,
      lifestyle_stability |-> 15, income_lifestyle_alignment |-> 15,
      social_support |-> 15, community_rootedness |-> 15,
      relationship_stability |-> 15 ]

\* MODIFIER_WEIGHTS, in tenths
MODIFIER_WEIGHTS ==
    [ professional_credibility |-> 20, job_stability |-> 20,
      lifestyle_stability |-> 15, income_lifestyle_alignment |-> 15,
      social_support |-> 10, community_rootedness |-> 10,
      relationship_stability |-> 10 ]

MAX_MODIFIER_ADJUSTMENT == 10

\* insertion order of the keys of the dict _calculate_modifiers builds
ModifierOrder ==
    << "professional_credibility", "job_stability", "lifestyle_stability",
       "income_lifestyle_alignment", "social_support", "community_rootedness",
       "relationship_stability", "gambling_flag", "substance_flag",
       "job_hopping_flag", "isolation_flag" >>

ScoreKeys == DOMAIN MODIFIER_WEIGHTS

-----------------------------------------------------------------------------
(* FeatureExtractor.extract_traditional_features.  Amounts of money are in *)
(* thousands of dollars, monthly_debt_payments in dollars, and the two     *)
(* ratios are decimals in ten-thousandths (0.35 = 3500).                   *)

\* application.get(key, 0): the stand-in of extract_traditional_features
AppGet_ZeroDefault(app, key, default) ==
    IF key \notin DOMAIN app \/ app[key].kind = "absent" THEN 0 ELSE app[key].val

\* application.get(key, default) for a cell of the application record
AppGet(app, key, default) ==
    IF key \notin DOMAIN app \/ app[key].kind = "absent" THEN default ELSE app[key].val

\* key in data
HasKey(data, key) == key \in DOMAIN data /\ data[key].kind # "absent"

\* the dataclass defaults
TraditionalFeatures ==
    [ credit_score |-> 0, credit_history_years |-> 0, annual_income |-> 0,
      employment_length_months |-> 0, is_self_employed |-> FALSE,
      income_verified |-> FALSE, debt_to_income_ratio |-> 0,
      monthly_debt_payments |-> 0, loan_amount |-> 0, property_value |-> 0,
      loan_to_value_ratio |-> 0, loan_purpose |-> "purchase",
      property_type |-> "single_family", is_primary_residence |-> TRUE,
      total_assets |-> 0, liquid_assets |-> 0, reserves_months |-> 0 ]

\* n / d of two floats: ZeroDivisionError when d is 0
Quotient(n, d) ==
    IF d = 0 THEN [raised |-> TRUE, v |-> 0]
    ELSE [raised |-> FALSE, v |-> RoundHalfEven(n, d)]

\* the ratio computed whether or not there is an income to divide by
debt_to_income_ratio_Unguarded(data, annual_income, monthly_debt_payments) ==
    LET computed == Quotient(monthly_debt_payments * 12 * 10, annual_income)
    IN  IF computed.raised THEN computed
        ELSE [ raised |-> FALSE,
               v |-> AppGet(data, "debt_to_income_ratio", computed.v) ]

\* the branch on annual_income > 0 and its guarded default
debt_to_income_ratio(data, annual_income, monthly_debt_payments) ==
    IF annual_income > 0
    THEN LET computed ==
                 \* monthly_income = annual_income / 12 is positive here
                 Quotient(monthly_debt_payments * 12 * 10, annual_income)
         IN  IF computed.raised THEN computed
             ELSE [ raised |-> FALSE,
                    v |-> AppGet(data, "debt_to_income_ratio", computed.v) ]
    ELSE [ raised |-> HasKey(data, "debt_to_income_ratio")
                      /\ data["debt_to_income_ratio"].kind = "none",
           v |-> AppGet(data, "debt_to_income_ratio", 0) ]

\* the branch on property_value > 0
loan_to_value_ratio(data, loan_amount, property_value) ==
    IF property_value > 0
    THEN LET computed == Quotient(loan_amount * ScoreOne, property_value)
         IN  IF computed.raised THEN computed
             ELSE [ raised |-> FALSE,
                    v |-> AppGet(data, "loan_to_value_ratio", computed.v) ]
    ELSE [ raised |-> HasKey(data, "loan_to_value_ratio")
                      /\ data["loan_to_value_ratio"].kind = "none",
           v |-> AppGet(data, "loan_to_value_ratio", 0) ]

\* the keys read through float() or int(), which raise TypeError on None
NumericKeys ==
    { "credit_score", "credit_history_years", "annual_income",
      "employment_length_months", "monthly_debt_payments", "loan_amount",
      "property_value", "total_assets", "liquid_assets", "reserves_months" }

\* bool(data.get(key, default))
AppBool(data, key, default) ==
    IF ~HasKey(data, key) THEN default
    ELSE data[key].kind # "none" /\ data[key].val # 0

\* raised: the call ends in an exception; f: the struct it returns otherwise
extract_traditional_features(data) ==
    LET annual_income == AppGet(data, "annual_income", 0)
        monthly_debt_payments == AppGet(data, "monthly_debt_payments", 0)
        loan_amount == AppGet(data, "loan_amount", 0)
        property_value == AppGet(data, "property_value", 0)
        dti == debt_to_income_ratio(data, annual_income, monthly_debt_payments)
        ltv == loan_to_value_ratio(data, loan_amount, property_value)
    IN  IF \E key \in NumericKeys : HasKey(data, key) /\ data[key].kind = "none"
        THEN [raised |-> TRUE, f |-> TraditionalFeatures]
        ELSE IF dti.raised \/ ltv.raised
        THEN [raised |-> TRUE, f |-> TraditionalFeatures]
        ELSE [ raised |-> FALSE,
               f |-> [ credit_score |-> AppGet(data, "credit_score", 0),
                       credit_history_years |->
                           AppGet(data, "credit_history_years", 0),
                       annual_income |-> annual_income,
                       employment_length_months |->
                           AppGet(data, "employment_length_months", 0),
                       is_self_employed |->
                           AppBool(data, "is_self_employed", FALSE),
                       income_verified |->
                           AppBool(data, "income_verified", FALSE),
                       debt_to_income_ratio |-> dti.v,
                       monthly_debt_payments |-> monthly_debt_payments,
                       loan_amount |-> loan_amount,
                       property_value |-> property_value,
                       loan_to_value_ratio |-> ltv.v,
                       loan_purpose |-> AppGet(data, "loan_purpose", "purchase"),
                       property_type |->
                           AppGet(data, "property_type", "single_family"),
                       is_primary_residence |->
                           AppBool(data, "is_primary_residence", TRUE),
                       total_assets |-> AppGet(data, "total_assets", 0),
                       liquid_assets |-> AppGet(data, "liquid_assets", 0),
                       reserves_months |-> AppGet(data, "reserves_months", 0) ] ]

-----------------------------------------------------------------------------
(* RiskScorer._calculate_modifiers: a map from term name to its value in   *)
(* hundred-thousandths of a point.                                         *)

\* a term that forgets the factor 2
ModifierTerm_Undoubled(score, key) == (5000 - score) * MODIFIER_WEIGHTS[key]

\* (0.5 - score) * weight * 2
ModifierTerm(score, key) == (5000 - score) * MODIFIER_WEIGHTS[key] * 2

\* a penalty scaled like a weighted term instead of a flat one
FlagPenalty_HalfScaled(key) ==
    CASE key = "gambling_flag" -> (3 * Unit) \div 2
      [] key = "substance_flag" -> (2 * Unit) \div 2
      [] key = "job_hopping_flag" -> (15 * (Unit \div 10)) \div 2
      [] key = "isolation_flag" -> (1 * Unit) \div 2

\* the flat red flag adjustments: +3, +2, +1.5, +1 points
FlagPenalty(key) ==
    CASE key = "gambling_flag" -> 3 * Unit
      [] key = "substance_flag" -> 2 * Unit
      [] key = "job_hopping_flag" -> 15 * (Unit \div 10)
      [] key = "isolation_flag" -> 1 * Unit

calculate_modifiers(features) ==
    LET flags ==
            (IF features.lifestyle.gambling_indicators
             THEN {"gambling_flag"} ELSE {})
            \cup (IF features.lifestyle.substance_use_indicators
                  THEN {"substance_flag"} ELSE {})
            \cup (IF features.professional.frequent_job_changes
                  THEN {"job_hopping_flag"} ELSE {})
            \cup (IF features.social.social_isolation_indicators
                  THEN {"isolation_flag"} ELSE {})
        score(key) ==
            CASE key = "professional_credibility" ->
                    features.professional.professional_credibility_score
              [] key = "job_stability" ->
                    features.professional.job_stability_score
              [] key = "lifestyle_stability" ->
                    features.lifestyle.lifestyle_stability_score
              [] key = "income_lifestyle_alignment" ->
                    features.lifestyle.income_lifestyle_alignment
              [] key = "social_support" ->
                    features.social.social_support_score
              [] key = "community_rootedness" ->
                    features.social.community_rootedness_score
              [] key = "relationship_stability" ->
                    features.social.relationship_stability_score
    IN  [ key \in ScoreKeys \cup flags |->
            IF key \in ScoreKeys THEN ModifierTerm(score(key), key)
            ELSE FlagPenalty(key) ]

\* the keys of a modifier dict, in insertion order
KeysInOrder(modifiers) ==
    SelectSeq(ModifierOrder, LAMBDA key : key \in DOMAIN modifiers)

RECURSIVE SumSeq(_, _)
SumSeq(modifiers, keys) ==
    IF keys = <<>> THEN 0
    ELSE modifiers[Head(keys)] + SumSeq(modifiers, Tail(keys))

\* sum(modifier_breakdown.values())
SumValues(modifiers) == SumSeq(modifiers, KeysInOrder(modifiers))

-----------------------------------------------------------------------------
(* RiskScorer.score_application *)

MetricKeys ==
    {"credit_score", "dti", "ltv", "employment_years", "reserves_months"}

\* the value a feature-group argument stands for: a struct, or None
NoGroup(defaults) == [given |-> FALSE, f |-> defaults]
Group(struct) == [given |-> TRUE, f |-> struct]

\* a modifier stage that runs whether or not a group was supplied
HasFeatures_Always(professional_features, lifestyle_features, social_features) ==
    TRUE

\* professional_features or lifestyle_features or social_features
HasFeatures(professional_features, lifestyle_features, social_features) ==
    professional_features.given \/ lifestyle_features.given
    \/ social_features.given

\* a base score with the credit and DTI weights exchanged
BaseScore_SwappedWeights(credit_risk, dti_risk, ltv_risk, employment_risk, reserves_risk) ==
    credit_risk * TRADITIONAL_WEIGHTS.dti
    + dti_risk * TRADITIONAL_WEIGHTS.credit_score
    + ltv_risk * TRADITIONAL_WEIGHTS.ltv
    + employment_risk * TRADITIONAL_WEIGHTS.employment
    + reserves_risk * TRADITIONAL_WEIGHTS.reserves

\* weighted base score, in hundred-thousandths
BaseScore(credit_risk, dti_risk, ltv_risk, employment_risk, reserves_risk) ==
    credit_risk * TRADITIONAL_WEIGHTS.credit_score
    + dti_risk * TRADITIONAL_WEIGHTS.dti
    + ltv_risk * TRADITIONAL_WEIGHTS.ltv
    + employment_risk * TRADITIONAL_WEIGHTS.employment
    + reserves_risk * TRADITIONAL_WEIGHTS.reserves

\* a cap on the upper side only
CapModifier_UpperOnly(total_modifier) ==
    Min(MAX_MODIFIER_ADJUSTMENT * Unit, total_modifier)

\* max(-MAX_MODIFIER_ADJUSTMENT, min(MAX_MODIFIER_ADJUSTMENT, total_modifier))
CapModifier(total_modifier) ==
    Max(0 - MAX_MODIFIER_ADJUSTMENT * Unit,
        Min(MAX_MODIFIER_ADJUSTMENT * Unit, total_modifier))

\* a clamp that forgets the ceiling
ClampFinal_NoCeiling(final_score) == Max(0, final_score)

\* max(0, min(100, final_score))
ClampFinal(final_score) == Max(0, Min(100 * Unit, final_score))

\* a ladder whose High band carries the Very High recommendation
Classify_HighAsDecline(risk_score) ==
    IF risk_score <= 25
    THEN [risk_category |-> "Low", recommendation |-> "Approve"]
    ELSE IF risk_score <= 45
    THEN [risk_category |-> "Moderate",
          recommendation |-> "Approve with Conditions"]
    ELSE IF risk_score <= 65
    THEN [risk_category |-> "Elevated",
          recommendation |-> "Manual Review Required"]
    ELSE IF risk_score <= 80
    THEN [risk_category |-> "High", recommendation |-> "Decline"]
    ELSE [risk_category |-> "Very High", recommendation |-> "Decline"]

\* the category / recommendation ladder
Classify(risk_score) ==
    IF risk_score <= 25
    THEN [risk_category |-> "Low", recommendation |-> "Approve"]
    ELSE IF risk_score <= 45
    THEN [risk_category |-> "Moderate",
          recommendation |-> "Approve with Conditions"]
    ELSE IF risk_score <= 65
    THEN [risk_category |-> "Elevated",
          recommendation |-> "Manual Review Required"]
    ELSE IF risk_score <= 80
    THEN [risk_category |-> "High", recommendation |-> "Decline Recommended"]
    ELSE [risk_category |-> "Very High", recommendation |-> "Decline"]

Factor(text, metric, value) ==
    [factor |-> text, metric |-> metric, value |-> value]

\* one list entry or none
Opt(cond, entry) == IF cond THEN <<entry>> ELSE <<>>

\* a DTI test that includes the threshold itself
MetricRiskFactors_DtiAtThreshold(credit_score, dti, ltv, employment_years, reserves_months) ==
    Opt(credit_score < 620,
        Factor("Poor credit score", "credit_score", credit_score))
    \o Opt(dti >= 430, Factor("High DTI ratio", "dti", dti))
    \o Opt(ltv > 900, Factor("High LTV ratio", "ltv", ltv))
    \o Opt(employment_years < 20,
           Factor("Short employment history", "employment_years",
                  employment_years))
    \o Opt(reserves_months < 3,
           Factor("Limited reserves", "reserves_months", reserves_months))

MetricRiskFactors(credit_score, dti, ltv, employment_years, reserves_months) ==
    Opt(credit_score < 620,
        Factor("Poor credit score", "credit_score", credit_score))
    \o Opt(dti > 430, Factor("High DTI ratio", "dti", dti))
    \o Opt(ltv > 900, Factor("High LTV ratio", "ltv", ltv))
    \o Opt(employment_years < 20,
           Factor("Short employment history", "employment_years",
                  employment_years))
    \o Opt(reserves_months < 3,
           Factor("Limited reserves", "reserves_months", reserves_months))

MetricPositiveFactors(credit_score, dti, ltv, employment_years, reserves_months) ==
    Opt(~(credit_score < 620) /\ credit_score >= 740,
        Factor("Excellent credit score", "credit_score", credit_score))
    \o Opt(~(dti > 430) /\ dti <= 280, Factor("Low DTI ratio", "dti", dti))
    \o Opt(~(ltv > 900) /\ ltv <= 800, Factor("Conservative LTV", "ltv", ltv))
    \o Opt(~(employment_years < 20) /\ employment_years >= 50,
           Factor("Stable employment", "employment_years", employment_years))
    \o Opt(~(reserves_months < 3) /\ reserves_months >= 6,
           Factor("Strong reserves", "reserves_months", reserves_months))

RECURSIVE ModifierFactors(_, _, _)
\* the modifier terms above +1 (risk = TRUE) or below -1 (risk = FALSE)
ModifierFactors(modifiers, keys, risk) ==
    IF keys = <<>> THEN <<>>
    ELSE LET value == modifiers[Head(keys)]
             hit == IF risk THEN value > 1 * Unit
                    ELSE ~(value > 1 * Unit) /\ value < 0 - 1 * Unit
         IN  Opt(hit, Factor("Social indicator", Head(keys), 0))
             \o ModifierFactors(modifiers, Tail(keys), risk)

\* _generate_ai_analysis without its try / except
generate_ai_analysis_Uncaught(self_client, complete) ==
    IF self_client = "none"
    THEN [raised |-> FALSE,
          text |-> "AI analysis unavailable - Keywords AI client not configured."]
    ELSE IF complete = "raises"
    THEN [raised |-> TRUE, text |-> ""]
    ELSE [raised |-> FALSE, text |-> "narrative"]

\* RiskScorer._generate_ai_analysis; complete is what client.complete does
\* ("ok" or "raises").  The result is the string returned, or raised = TRUE
\* when an exception leaves the method.
generate_ai_analysis(self_client, complete) ==
    IF self_client = "none"
    THEN [raised |-> FALSE,
          text |-> "AI analysis unavailable - Keywords AI client not configured."]
    ELSE IF complete = "raises"
    THEN [raised |-> FALSE, text |-> "AI analysis error"]
    ELSE [raised |-> FALSE, text |-> "narrative"]

NoReport == [risk_score |-> 0 - 1]
EmptyBreakdown == [key \in {} |-> 0]

\* score_application up to the narrative: metrics, components, base score,
\* modifiers, final score, category and factor lists
Assessment(app, professional_features, lifestyle_features, social_features) ==
    LET app_id == AppGet(app, "id", "NEW")
        borrower == AppGet(app, "borrower", "Unknown")
        credit_score == AppGet(app, "credit_score", 680)
        dti == AppGet(app, "dti", 360)
        ltv == AppGet(app, "ltv", 800)
        employment_years == AppGet(app, "employment_years", 20)
        reserves_months == AppGet(app, "reserves_months", 3)
        credit_risk == calculate_credit_risk(credit_score)
        dti_risk == calculate_dti_risk(dti)
        ltv_risk == calculate_ltv_risk(ltv)
        employment_risk == calculate_employment_risk(employment_years)
        reserves_risk == calculate_reserves_risk(reserves_months)
        base_score == BaseScore(credit_risk, dti_risk, ltv_risk,
                                employment_risk, reserves_risk)
        any_group == HasFeatures(professional_features, lifestyle_features,
                                 social_features)
        combined ==
            [ traditional |-> extract_traditional_features(app).f,
              professional |-> IF professional_features.given
                               THEN professional_features.f
                               ELSE ProfessionalFeatures,
              lifestyle |-> IF lifestyle_features.given
                            THEN lifestyle_features.f ELSE LifestyleFeatures,
              social |-> IF social_features.given
                         THEN social_features.f
                         ELSE SocialConnectednessFeatures ]
        modifier_breakdown ==
            IF any_group THEN calculate_modifiers(combined) ELSE EmptyBreakdown
        total_modifier ==
            IF any_group THEN CapModifier(SumValues(modifier_breakdown)) ELSE 0
        final_score == ClampFinal(base_score + total_modifier)
        risk_score == RoundHalfEven(final_score, Unit)
        class == Classify(risk_score)
        keys == KeysInOrder(modifier_breakdown)
        risk_factors ==
            MetricRiskFactors(credit_score, dti, ltv, employment_years,
                              reserves_months)
            \o ModifierFactors(modifier_breakdown, keys, TRUE)
        positive_factors ==
            MetricPositiveFactors(credit_score, dti, ltv, employment_years,
                                  reserves_months)
            \o ModifierFactors(modifier_breakdown, keys, FALSE)
    IN  IF \E key \in MetricKeys : app[key].kind = "none"
        THEN \* a comparison of None with a number raises TypeError
             [raised |-> TRUE]
        ELSE [ raised |-> FALSE,
               application_id |-> app_id,
               borrower_name |-> borrower,
               risk_score |-> risk_score,
               risk_category |-> class.risk_category,
               recommendation |-> class.recommendation,
               base_score |-> base_score,
               credit_component |-> credit_risk,
               dti_component |-> dti_risk,
               ltv_component |-> ltv_risk,
               employment_component |-> employment_risk,
               reserves_component |-> reserves_risk,
               total_modifier_adjustment |-> total_modifier,
               modifier_breakdown |-> modifier_breakdown,
               credit_score |-> credit_score,
               dti_ratio |-> dti,
               ltv_ratio |-> ltv,
               risk_factors |-> risk_factors,
               positive_factors |-> positive_factors ]

\* RiskReport(...): the assessed fields and the narrative
RiskReport(a, ai_analysis) ==
    [ application_id |-> a.application_id,
      borrower_name |-> a.borrower_name,
      risk_score |-> a.risk_score,
      risk_category |-> a.risk_category,
      recommendation |-> a.recommendation,
      base_score |-> a.base_score,
      credit_component |-> a.credit_component,
      dti_component |-> a.dti_component,
      ltv_component |-> a.ltv_component,
      employment_component |-> a.employment_component,
      reserves_component |-> a.reserves_component,
      total_modifier_adjustment |-> a.total_modifier_adjustment,
      modifier_breakdown |-> a.modifier_breakdown,
      credit_score |-> a.credit_score,
      dti_ratio |-> a.dti_ratio,
      ltv_ratio |-> a.ltv_ratio,
      risk_factors |-> a.risk_factors,
      positive_factors |-> a.positive_factors,
      ai_analysis |-> ai_analysis ]

\* a scorer that sends the loan to manual review when the narrative fails
score_application_ReviewOnAiError(self_client, complete, app, professional_features, lifestyle_features, social_features) ==
    LET a == Assessment(app, professional_features, lifestyle_features,
                        social_features)
        ai_analysis == generate_ai_analysis(self_client, complete)
    IN  IF a.raised \/ ai_analysis.raised
        THEN [outcome |-> "raised", report |-> NoReport]
        ELSE [ outcome |-> "returned",
               report |->
                 IF ai_analysis.text = "AI analysis error"
                 THEN [ RiskReport(a, ai_analysis.text) EXCEPT
                          !.recommendation = "Manual Review Required" ]
                 ELSE RiskReport(a, ai_analysis.text) ]

score_application(self_client, complete, app, professional_features, lifestyle_features, social_features) ==
    LET a == Assessment(app, professional_features, lifestyle_features,
                        social_features)
        ai_analysis == generate_ai_analysis(self_client, complete)
    IN  IF a.raised \/ ai_analysis.raised
        THEN [outcome |-> "raised", report |-> NoReport]
        ELSE [ outcome |-> "returned",
               report |-> RiskReport(a, ai_analysis.text) ]

\* RiskReport.to_dict: the serialised report, values rounded to hundredths
to_dict(r) ==
    [ application_id |-> r.application_id,
      borrower_name |-> r.borrower_name,
      risk_score |-> r.risk_score,
      risk_category |-> r.risk_category,
      recommendation |-> r.recommendation,
      credit_score |-> r.credit_score,
      dti |-> r.dti_ratio,
      ltv |-> r.ltv_ratio,
      score_breakdown |->
        [ credit_risk |->
            RoundHalfEven(r.credit_component * TRADITIONAL_WEIGHTS.credit_score,
                          Milli),
          dti_risk |->
            RoundHalfEven(r.dti_component * TRADITIONAL_WEIGHTS.dti, Milli),
          ltv_risk |->
            RoundHalfEven(r.ltv_component * TRADITIONAL_WEIGHTS.ltv, Milli),
          employment_risk |->
            RoundHalfEven(r.employment_component * TRADITIONAL_WEIGHTS.employment,
                          Milli),
          reserves_risk |->
            RoundHalfEven(r.reserves_component * TRADITIONAL_WEIGHTS.reserves,
                          Milli),
          feature_modifiers |->
            RoundHalfEven(r.total_modifier_adjustment, Milli) ],
      scores |->
        [ base_score |-> RoundHalfEven(r.base_score, Milli),
          credit_component |-> RoundHalfEven(r.credit_component, 10),
          dti_component |-> RoundHalfEven(r.dti_component, 10),
          ltv_component |-> RoundHalfEven(r.ltv_component, 10),
          employment_component |-> RoundHalfEven(r.employment_component, 10),
          reserves_component |-> RoundHalfEven(r.reserves_component, 10),
          modifier_adjustment |->
            RoundHalfEven(r.total_modifier_adjustment, Milli) ],
      modifier_breakdown |->
        [ key \in DOMAIN r.modifier_breakdown |->
            RoundHalfEven(r.modifier_breakdown[key], Milli) ],
      metrics |->
        [ credit_score |-> r.credit_score, dti_ratio |-> r.dti_ratio,
          ltv_ratio |-> r.ltv_ratio ],
      risk_factors |-> r.risk_factors,
      positive_factors |-> r.positive_factors,
      ai_analysis |-> r.ai_analysis ]

-----------------------------------------------------------------------------
(* Inputs *)

\* how many of the five metrics may be missing (absent or None) in one record
MaxMissing == 1
\* how far outside [0, 1] a caller-set derived score goes, in whole units
MaxExcess == 5

Num(v) == [kind |-> "num", val |-> v]
NoneCell == [kind |-> "none", val |-> 0]
AbsentCell == [kind |-> "absent", val |-> 0]
Str(v) == [kind |-> "str", val |-> v]

Cells(samples) == {Num(v) : v \in samples} \cup {NoneCell, AbsentCell}

\* fixture values of TEST_CASES and out-of-domain extremes
CreditSamples == {CreditLo - Slack, 580, 780}
DtiSamples == {280, 480, MaxPct * 10}
LtvSamples == {800, 956}
EmploymentSamples == {0 - MaxExcess * 10, 10, 80}
ReservesSamples == {0 - MaxExcess, 1, 12}

App(id, borrower, credit_score, dti, ltv, employment_years, reserves_months) ==
    [ id |-> Str(id), borrower |-> Str(borrower),
      credit_score |-> Num(credit_score), dti |-> Num(dti), ltv |-> Num(ltv),
      employment_years |-> Num(employment_years),
      reserves_months |-> Num(reserves_months) ]

\* TEST_CASES (dti, ltv and employment_years in tenths)
TEST_CASES ==
    << App("LN-2024-08472", "James Morrison", 780, 280, 800, 80, 12),
       App("LN-2024-08471", "Sarah Chen", 720, 350, 750, 40, 6),
       App("LN-2024-08470", "Michael Torres", 640, 420, 954, 20, 3),
       App("LN-2024-08469", "Robert Blake", 580, 480, 956, 10, 1) >>

Missing(app) == {key \in MetricKeys : app[key].kind # "num"}

Applications ==
    { app \in [ id : {Str("LN-2024-08469")},
                borrower : {Str("Robert Blake")},
                credit_score : Cells(CreditSamples),
                dti : Cells(DtiSamples),
                ltv : Cells(LtvSamples),
                employment_years : Cells(EmploymentSamples),
                reserves_months : Cells(ReservesSamples) ] :
        Cardinality(Missing(app)) <= MaxMissing }

EmptyExtraction == [key \in {} |-> 0]

ProfessionalExtraction ==
    [ current_job_months |-> 72, total_experience_years |-> 15,
      jobs_last_5_years |-> 5, career_trajectory |-> "growing",
      education_level |-> "master", industry |-> "healthcare",
      profile_completeness |-> 90, has_recommendations |-> TRUE,
      connection_count |-> "high", employment_gaps |-> 1,
      red_flags |-> <<"gap">> ]

LifestyleExtraction ==
    [ lifestyle_level |-> "lavish", spending_vs_income |-> "overspending",
      luxury_items_visible |-> TRUE, frequent_expensive_travel |-> TRUE,
      vehicle_type |-> "luxury", housing_quality |-> "upscale",
      appears_homeowner |-> FALSE, travel_frequency |-> "frequently",
      expensive_hobbies |-> TRUE, gambling_indicators |-> TRUE,
      substance_use_indicators |-> TRUE,
      financial_responsibility_signals |-> <<>>,
      financial_irresponsibility_signals |-> <<"payday loan", "casino">> ]

SocialExtraction ==
    [ follower_tier |-> "high", engagement_quality |-> "high",
      authentic_connections |-> TRUE,
      relationship_status |-> "married_with_children",
      family_presence |-> "frequent", appears_stable_relationship |-> TRUE,
      has_children |-> TRUE, community_involvement |-> "high",
      group_memberships |-> 4, volunteer_charity |-> TRUE,
      religious_community |-> TRUE, long_term_friendships |-> TRUE,
      local_ties |-> "strong", geographic_stability |-> TRUE,
      social_isolation_indicators |-> FALSE, conflict_indicators |-> 0,
      relationship_instability |-> 0 ]

\* what a caller may pass as professional_features: None, the defaults, a
\* struct built from an extraction record, or a struct with fields set directly
ProfessionalArgs ==
    { NoGroup(ProfessionalFeatures), Group(ProfessionalFeatures),
      Group(build_professional_features(EmptyExtraction)),
      Group(build_professional_features(ProfessionalExtraction)),
      Group([ProfessionalFeatures EXCEPT
               !.job_stability_score = 0,
               !.professional_credibility_score = 0 - MaxExcess * ScoreOne,
               !.frequent_job_changes = TRUE]) }

LifestyleArgs ==
    { NoGroup(LifestyleFeatures), Group(LifestyleFeatures),
      Group(build_lifestyle_features(EmptyExtraction)),
      Group(build_lifestyle_features(LifestyleExtraction)),
      Group([LifestyleFeatures EXCEPT
               !.lifestyle_stability_score = (MaxExcess + 1) * ScoreOne,
               !.income_lifestyle_alignment = (MaxExcess + 1) * ScoreOne]) }

SocialArgs ==
    { NoGroup(SocialConnectednessFeatures), Group(SocialConnectednessFeatures),
      Group(build_social_features(EmptyExtraction)),
      Group(build_social_features(SocialExtraction)),
      Group([SocialConnectednessFeatures EXCEPT
               !.social_support_score = (MaxExcess + 1) * ScoreOne,
               !.relationship_stability_score = 0 - MaxExcess * ScoreOne,
               !.social_isolation_indicators = TRUE]) }

-----------------------------------------------------------------------------
(* FeatureExtractor.extract_*_features and extract_all_features.  An       *)
(* analysis text is "none" (None), "" or "analysis"; response is what      *)
(* keywords_client.extract_structured_data does with it: it raises, or     *)
(* returns JSON that is not an object ("list"), an object without keys     *)
(* ("empty") or an object with the schema's keys ("rich").                 *)

Texts == {"none", "", "analysis"}
Responses == {"raises", "list", "empty", "rich"}

\* truth value of an analysis text
Truthy(text) == text \notin {"none", ""}

\* a guard that looks at the client only
ShouldExtract_IgnoresText(text, keywords_client) ==
    keywords_client = "configured"

\* <group>_analysis and self.keywords_client
ShouldExtract(text, keywords_client) ==
    Truthy(text) /\ keywords_client = "configured"

\* an extractor that lets the failure of the extraction call through
Extracted_Propagates(keywords_client, response, defaults, built) ==
    IF keywords_client = "none"
    THEN [raised |-> TRUE, error |-> "ValueError", f |-> defaults]
    ELSE IF response \in {"raises", "list"}
    THEN [raised |-> TRUE, error |-> "Exception", f |-> defaults]
    ELSE [raised |-> FALSE, error |-> "", f |-> built]

\* the result of extract_<group>_features: a struct, or an exception
Extracted(keywords_client, response, defaults, built) ==
    IF keywords_client = "none"
    THEN \* ValueError: Keywords AI client required
         [raised |-> TRUE, error |-> "ValueError", f |-> defaults]
    ELSE IF response = "raises"
    THEN \* caught: the all-defaults struct
         [raised |-> FALSE, error |-> "", f |-> defaults]
    ELSE IF response = "list"
    THEN \* extracted.get raises AttributeError outside the try
         [raised |-> TRUE, error |-> "AttributeError", f |-> defaults]
    ELSE [raised |-> FALSE, error |-> "", f |-> built]

extract_professional_features(keywords_client, response) ==
    Extracted(keywords_client, response, ProfessionalFeatures,
              build_professional_features(
                  IF response = "rich" THEN ProfessionalExtraction
                  ELSE EmptyExtraction))

extract_lifestyle_features(keywords_client, response) ==
    Extracted(keywords_client, response, LifestyleFeatures,
              build_lifestyle_features(
                  IF response = "rich" THEN LifestyleExtraction
                  ELSE EmptyExtraction))

extract_social_features(keywords_client, response) ==
    Extracted(keywords_client, response, SocialConnectednessFeatures,
              build_social_features(
                  IF response = "rich" THEN SocialExtraction
                  ELSE EmptyExtraction))

\* texts and responses are records over professional, lifestyle, social
extract_all_features(keywords_client, traditional_data, texts, responses) ==
    LET professional_features ==
            IF ShouldExtract(texts.professional, keywords_client)
            THEN extract_professional_features(keywords_client,
                                               responses.professional)
            ELSE [raised |-> FALSE, error |-> "", f |-> ProfessionalFeatures]
        lifestyle_features ==
            IF ShouldExtract(texts.lifestyle, keywords_client)
            THEN extract_lifestyle_features(keywords_client,
                                            responses.lifestyle)
            ELSE [raised |-> FALSE, error |-> "", f |-> LifestyleFeatures]
        social_features ==
            IF ShouldExtract(texts.social, keywords_client)
            THEN extract_social_features(keywords_client, responses.social)
            ELSE IF ShouldExtract(texts.lifestyle, keywords_client)
            THEN \* the lifestyle analysis stands in for the social one
                 extract_social_features(keywords_client, responses.social)
            ELSE [raised |-> FALSE, error |-> "", f |-> SocialConnectednessFeatures]
        error ==
            IF extract_traditional_features(traditional_data).raised
            THEN "TypeError"
            ELSE IF professional_features.raised THEN professional_features.error
            ELSE IF lifestyle_features.raised THEN lifestyle_features.error
            ELSE social_features.error
    IN  IF \/ extract_traditional_features(traditional_data).raised
           \/ professional_features.raised
           \/ lifestyle_features.raised
           \/ social_features.raised
        THEN [outcome |-> "raised", error |-> error, features |-> 0]
        ELSE [ outcome |-> "returned", error |-> "",
               features |->
                 [ traditional |-> extract_traditional_features(traditional_data).f,
                   professional |-> professional_features.f,
                   lifestyle |-> lifestyle_features.f,
                   social |-> social_features.f ] ]

-----------------------------------------------------------------------------
(* backend storage.py: the in-memory application store.  Amounts of money  *)
(* are in thousands of dollars, ltv_ratio in tenths of a percent and       *)
(* dti_ratio in hundredths of a percent.  A key a record does not have is  *)
(* an absent cell.                                                         *)

\* one entry of SAMPLE_APPLICATIONS
SampleApplication(application_id, status, borrower_name, loan_type, loan_amount, property_value, ltv_ratio, risk_score, credit_score, annual_income, dti_ratio, submitted_at, processed_at) ==
    [ application_id |-> application_id, status |-> status,
      borrower_name |-> borrower_name, loan_type |-> loan_type,
      loan_amount |-> loan_amount, property_value |-> property_value,
      ltv_ratio |-> ltv_ratio, risk_score |-> risk_score,
      credit_score |-> credit_score, annual_income |-> annual_income,
      dti_ratio |-> dti_ratio, ai_summary |-> AbsentCell,
      ai_risk_score |-> AbsentCell, submitted_at |-> submitted_at,
      processed_at |-> processed_at, updated_at |-> AbsentCell,
      full_response |-> AbsentCell ]

SAMPLE_APPLICATIONS ==
    << SampleApplication("LN-2024-08472", "approved", "James Morrison",
                         "30-Year Fixed Rate Conventional", 425, 530, 802, 18,
                         780, 145, 2850, Str("2024-01-30T10:30:00Z"),
                         Str("2024-01-30T10:30:09Z")),
       SampleApplication("LN-2024-08471", "pending", "Sarah Chen",
                         "15-Year Fixed Rate Conventional", 315, 420, 750, 32,
                         745, 118, 3120, Str("2024-01-30T09:15:00Z"),
                         NoneCell),
       SampleApplication("LN-2024-08470", "review", "Michael Torres",
                         "30-Year Fixed Rate FHA", 285, 299, 953, 58, 680, 72,
                         4210, Str("2024-01-29T16:45:00Z"),
                         Str("2024-01-29T16:45:12Z")),
       SampleApplication("LN-2024-08469", "declined", "Robert Blake",
                         "30-Year Fixed Rate Conventional", 520, 545, 954, 84,
                         620, 85, 5230, Str("2024-01-29T14:20:00Z"),
                         Str("2024-01-29T14:20:15Z")) >>

\* _applications after the module's initialisation loop
InitialStore ==
    [ application_id \in
        {SAMPLE_APPLICATIONS[i].application_id : i \in DOMAIN SAMPLE_APPLICATIONS}
      |-> LET i == CHOOSE i \in DOMAIN SAMPLE_APPLICATIONS :
                     SAMPLE_APPLICATIONS[i].application_id = application_id
          IN  SAMPLE_APPLICATIONS[i] ]

\* _applications[application_id] = data
save_application(store, application_id, data) ==
    [ id \in DOMAIN store \cup {application_id} |->
        IF id = application_id THEN data ELSE store[id] ]

\* _applications.get(application_id)
get_application(store, application_id) ==
    IF application_id \in DOMAIN store
    THEN [found |-> TRUE, app |-> store[application_id]]
    ELSE [found |-> FALSE, app |-> NoneCell]

\* sets status and updated_at of a stored record; a store without the id is
\* left as it is (the function then returns None)
update_application_status(store, application_id, new_status) ==
    IF application_id \in DOMAIN store
    THEN [ store EXCEPT ![application_id].status = new_status,
                        ![application_id].updated_at = Str("now") ]
    ELSE store

\* sum(1 for a in apps if a.get("status") == status)
CountStatus(store, status) ==
    Cardinality({id \in DOMAIN store : store[id].status = status})

RECURSIVE SumRiskScores(_, _)
\* sum of the risk_score of the records named by ids
SumRiskScores(store, ids) ==
    IF ids = {} THEN 0
    ELSE LET id == CHOOSE id \in ids : TRUE
         IN  store[id].risk_score + SumRiskScores(store, ids \ {id})

\* the two rates in tenths; average_processing_time is the constant 9.5
get_dashboard_stats(store) ==
    LET total == Cardinality(DOMAIN store)
        approved == CountStatus(store, "approved")
        pending == CountStatus(store, "pending")
        declined == CountStatus(store, "declined")
        review == CountStatus(store, "review")
        scored == {id \in DOMAIN store : store[id].risk_score # 0}
        decided == approved + declined
    IN  IF total = 0
        THEN [ total_applications |-> 0, approved |-> 0, pending |-> 0,
               declined |-> 0, under_review |-> 0, approval_rate |-> 0,
               average_risk_score |-> 0, average_processing_time |-> 0 ]
        ELSE [ total_applications |-> total, approved |-> approved,
               pending |-> pending, declined |-> declined,
               under_review |-> review,
               approval_rate |->
                   IF decided > 0 THEN RoundHalfEven(approved * 1000, decided)
                   ELSE 0,
               average_risk_score |->
                   IF scored # {}
                   THEN RoundHalfEven(SumRiskScores(store, scored) * 10,
                                      Cardinality(scored))
                   ELSE 0,
               average_processing_time |-> 95 ]

-----------------------------------------------------------------------------
(* Spec: one call of score_application on inputs drawn by Init *)

Init ==
    /\ pc = "start"
    /\ fn = "none" /\ arg = 0 /\ val = 0
    /\ client \in {"configured", "none"}
    /\ application \in Applications
    /\ professional \in ProfessionalArgs
    /\ lifestyle \in LifestyleArgs
    /\ social \in SocialArgs
    /\ outcome = "none"
    /\ report = NoReport
    /\ first = [outcome |-> "none", report |-> NoReport]
    /\ _applications = InitialStore

ScoreApplication ==
    /\ pc = "start"
    /\ \E complete \in {"ok", "raises"} :
         LET result == score_application(client, complete, application,
                                         professional, lifestyle, social)
         IN  /\ outcome' = result.outcome
             /\ report' = result.report
    /\ pc' = "done"
    /\ UNCHANGED <<fn, arg, val, client, application, professional, lifestyle,
                   social, first,
                   _applications>>

Next == ScoreApplication

Spec == Init /\ [][Next]_vars

-----------------------------------------------------------------------------
(* SpecComponents: one of the five component functions applied to an       *)
(* argument drawn by Init                                                  *)

ComponentArgs(name) ==
    CASE name = "credit" -> (CreditLo - Slack) .. (CreditHi + Slack)
      [] name = "dti" -> (0 - Slack) .. (MaxPct * 10)
      [] name = "ltv" -> (0 - Slack) .. (MaxPct * 10)
      [] name = "employment" -> (0 - MaxExcess * 10) .. (MaxYears * 10)
      [] name = "reserves" -> (0 - MaxExcess) .. MaxMonths

InitComponents ==
    /\ pc = "start"
    /\ fn \in {"credit", "dti", "ltv", "employment", "reserves"}
    /\ arg \in ComponentArgs(fn)
    /\ val = 0
    /\ client = "none"
    /\ application = TEST_CASES[1]
    /\ professional = NoGroup(ProfessionalFeatures)
    /\ lifestyle = NoGroup(LifestyleFeatures)
    /\ social = NoGroup(SocialConnectednessFeatures)
    /\ outcome = "none"
    /\ report = NoReport
    /\ first = [outcome |-> "none", report |-> NoReport]
    /\ _applications = InitialStore

Calc(name, result) ==
    /\ pc = "start"
    /\ fn = name
    /\ val' = result
    /\ pc' = "done"
    /\ UNCHANGED <<fn, arg, client, application, professional, lifestyle,
                   social, outcome, report, first,
                   _applications>>

CalcCreditRisk == Calc("credit", calculate_credit_risk(arg))
CalcDtiRisk == Calc("dti", calculate_dti_risk(arg))
CalcLtvRisk == Calc("ltv", calculate_ltv_risk(arg))
CalcEmploymentRisk == Calc("employment", calculate_employment_risk(arg))
CalcReservesRisk == Calc("reserves", calculate_reserves_risk(arg))

NextComponents ==
    \/ CalcCreditRisk
    \/ CalcDtiRisk
    \/ CalcLtvRisk
    \/ CalcEmploymentRisk
    \/ CalcReservesRisk

SpecComponents == InitComponents /\ [][NextComponents]_vars

-----------------------------------------------------------------------------
(* SpecCalls: a call of score_application, then any number of other calls  *)
(* and newly constructed scorers, then the same call again                 *)

\* the dashboard fixtures and one record of out-of-domain extremes
CallApplications ==
    { TEST_CASES[i] : i \in DOMAIN TEST_CASES }
    \cup { App("NEW-EXT", "Extreme", CreditLo - Slack, MaxPct * 10, 956,
               0 - MaxExcess * 10, 0 - MaxExcess) }

InitCalls ==
    /\ pc = "start"
    /\ fn = "none" /\ arg = 0 /\ val = 0
    /\ client \in {"configured", "none"}
    /\ application \in CallApplications
    /\ professional \in ProfessionalArgs
    /\ lifestyle \in LifestyleArgs
    /\ social \in SocialArgs
    /\ outcome = "none"
    /\ report = NoReport
    /\ first = [outcome |-> "none", report |-> NoReport]
    /\ _applications = InitialStore

FirstCall ==
    /\ pc = "start"
    /\ \E complete \in {"ok", "raises"} :
         LET result == score_application(client, complete, application,
                                         professional, lifestyle, social)
         IN  /\ outcome' = result.outcome
             /\ report' = result.report
             /\ first' = result
    /\ pc' = "again"
    /\ UNCHANGED <<fn, arg, val, client, application, professional, lifestyle,
                   social,
                   _applications>>

\* RiskScorer.__init__: KeywordsAIClient() is constructed or raises ValueError
NewScorer ==
    /\ pc = "again"
    /\ \E made \in {"configured", "none"} : client' = made
    /\ UNCHANGED <<pc, fn, arg, val, application, professional, lifestyle,
                   social, outcome, report, first,
                   _applications>>

\* what the calls in between score
OtherApplications == {TEST_CASES[1], TEST_CASES[3]}

\* a call on some other application, without feature groups
OtherCall ==
    /\ pc = "again"
    /\ \E other \in OtherApplications, complete \in {"ok", "raises"} :
         LET result == score_application(client, complete, other,
                                         NoGroup(ProfessionalFeatures),
                                         NoGroup(LifestyleFeatures),
                                         NoGroup(SocialConnectednessFeatures))
         IN  /\ outcome' = result.outcome
             /\ report' = result.report
    /\ UNCHANGED <<pc, fn, arg, val, client, application, professional,
                   lifestyle, social, first,
                   _applications>>

SecondCall ==
    /\ pc = "again"
    /\ \E complete \in {"ok", "raises"} :
         LET result == score_application(client, complete, application,
                                         professional, lifestyle, social)
         IN  /\ outcome' = result.outcome
             /\ report' = result.report
    /\ pc' = "done"
    /\ UNCHANGED <<fn, arg, val, client, application, professional, lifestyle,
                   social, first,
                   _applications>>

NextCalls ==
    \/ FirstCall
    \/ NewScorer
    \/ OtherCall
    \/ SecondCall

SpecCalls == InitCalls /\ [][NextCalls]_vars

-----------------------------------------------------------------------------
(* SpecModifiers: one call of score_application with three feature structs *)
(* whose derived scores and red flags are set directly: one derived score  *)
(* (fn) sweeps a grid (arg), the other six share one value.                *)

\* distance between two swept derived scores, in ten-thousandths
SweepStep == 250

SweepScores ==
    { i * SweepStep :
        i \in (0 - ScoreOne \div (2 * SweepStep))
               .. ((3 * ScoreOne) \div (2 * SweepStep)) }

\* what the six derived scores that are not swept are set to
RestScores == {0, 5000, ScoreOne}

FlagKeys ==
    {"gambling_flag", "substance_flag", "job_hopping_flag", "isolation_flag"}

\* the three structs with derived scores and flags assigned field by field
ProfessionalWith(score, flags) ==
    [ ProfessionalFeatures EXCEPT
        !.professional_credibility_score = score["professional_credibility"],
        !.job_stability_score = score["job_stability"],
        !.frequent_job_changes = "job_hopping_flag" \in flags ]

LifestyleWith(score, flags) ==
    [ LifestyleFeatures EXCEPT
        !.lifestyle_stability_score = score["lifestyle_stability"],
        !.income_lifestyle_alignment = score["income_lifestyle_alignment"],
        !.gambling_indicators = "gambling_flag" \in flags,
        !.substance_use_indicators = "substance_flag" \in flags ]

SocialWith(score, flags) ==
    [ SocialConnectednessFeatures EXCEPT
        !.social_support_score = score["social_support"],
        !.community_rootedness_score = score["community_rootedness"],
        !.relationship_stability_score = score["relationship_stability"],
        !.social_isolation_indicators = "isolation_flag" \in flags ]

InitModifiers ==
    /\ pc = "start"
    /\ fn \in ScoreKeys
    /\ arg \in SweepScores
    /\ val = 0
    /\ client = "none"
    /\ application \in {TEST_CASES[1], TEST_CASES[4]}
    /\ \E rest \in RestScores, flags \in SUBSET FlagKeys :
         LET score == [key \in ScoreKeys |-> IF key = fn THEN arg ELSE rest]
         IN  /\ professional = Group(ProfessionalWith(score, flags))
             /\ lifestyle = Group(LifestyleWith(score, flags))
             /\ social = Group(SocialWith(score, flags))
    /\ outcome = "none"
    /\ report = NoReport
    /\ first = [outcome |-> "none", report |-> NoReport]
    /\ _applications = InitialStore

SpecModifiers == InitModifiers /\ [][Next]_vars

-----------------------------------------------------------------------------
(* SpecDerived: one of the seven derived-score functions applied to a      *)
(* struct whose raw fields, those the function reads, are drawn by Init    *)
(* inside and far outside their documented domains.                        *)

\* how far outside its documented domain a raw field goes
FarOut == 1000

Counts == {0 - FarOut, 0, 1, 5, FarOut}
\* fields on the 0-1 scale, in hundredths
Ratios == {0 - FarOut * 100, 0, 50, 100, FarOut * 100}

ProfessionalRaw(name) ==
    IF name = "job_stability"
    THEN { [ ProfessionalFeatures EXCEPT
               !.current_job_months = months, !.jobs_last_5_years = jobs,
               !.employment_gaps = gaps, !.career_trajectory = trajectory ] :
             months \in Counts \cup {30, 60}, jobs \in Counts, gaps \in Counts,
             trajectory \in Counts \cup {3} }
    ELSE { [ ProfessionalFeatures EXCEPT
               !.education_level = level, !.total_experience_years = years,
               !.profile_completeness = completeness,
               !.connection_count_tier = tier,
               !.has_recommendations = recommended,
               !.industry_stability = stability ] :
             level \in Counts, years \in {0 - FarOut, 10, FarOut},
             completeness \in Ratios, tier \in {0 - FarOut, 2, FarOut},
             recommended \in BOOLEAN, stability \in {0 - FarOut * 100, 95} }

LifestyleRaw(name) ==
    IF name = "lifestyle_stability"
    THEN { [ LifestyleFeatures EXCEPT
               !.gambling_indicators = gambling,
               !.substance_use_indicators = substance,
               !.apparent_spending_vs_income = spending,
               !.financial_responsibility_signals = good,
               !.financial_irresponsibility_signals = bad,
               !.appears_homeowner = homeowner ] :
             gambling \in BOOLEAN, substance \in BOOLEAN,
             spending \in Ratios \cup {80}, good \in Counts, bad \in Counts,
             homeowner \in BOOLEAN }
    ELSE { [ LifestyleFeatures EXCEPT
               !.apparent_spending_vs_income = spending,
               !.luxury_items_visible = luxury,
               !.frequent_expensive_travel = travel ] :
             spending \in Ratios \cup {20, 60, 61, 80}, luxury \in BOOLEAN,
             travel \in BOOLEAN }

SocialRaw(name) ==
    IF name = "social_support"
    THEN { [ SocialConnectednessFeatures EXCEPT
               !.family_presence_in_content = family,
               !.community_involvement = community,
               !.appears_stable_relationship = stable,
               !.long_term_friendships_visible = stable,
               !.volunteer_charity_involvement = volunteer,
               !.authentic_connections = authentic,
               !.social_isolation_indicators = isolated,
               !.conflict_drama_indicators = conflicts ] :
             family \in Ratios, community \in Ratios, stable \in BOOLEAN,
             volunteer \in BOOLEAN, authentic \in {0 - FarOut * 100, 80},
             isolated \in BOOLEAN, conflicts \in Counts }
    ELSE IF name = "community_rootedness"
    THEN { [ SocialConnectednessFeatures EXCEPT
               !.local_community_ties = ties, !.geographic_stability = stability,
               !.community_involvement = community,
               !.group_memberships = groups,
               !.religious_community_ties = religious ] :
             ties \in Ratios, stability \in Ratios, community \in Ratios,
             groups \in Counts, religious \in BOOLEAN }
    ELSE { [ SocialConnectednessFeatures EXCEPT
               !.appears_stable_relationship = stable,
               !.relationship_status = status, !.has_children = children,
               !.relationship_instability_signals = signals,
               !.social_isolation_indicators = isolated ] :
             stable \in BOOLEAN, status \in Counts \cup {3},
             children \in BOOLEAN, signals \in Counts, isolated \in BOOLEAN }

InitDerived ==
    /\ pc = "start"
    /\ fn \in ScoreKeys
    /\ arg = 0 /\ val = 0
    /\ client = "none"
    /\ application = TEST_CASES[1]
    /\ professional \in
         IF fn \in {"job_stability", "professional_credibility"}
         THEN {Group(f) : f \in ProfessionalRaw(fn)}
         ELSE {NoGroup(ProfessionalFeatures)}
    /\ lifestyle \in
         IF fn \in {"lifestyle_stability", "income_lifestyle_alignment"}
         THEN {Group(f) : f \in LifestyleRaw(fn)}
         ELSE {NoGroup(LifestyleFeatures)}
    /\ social \in
         IF fn \in {"social_support", "community_rootedness",
                    "relationship_stability"}
         THEN {Group(f) : f \in SocialRaw(fn)}
         ELSE {NoGroup(SocialConnectednessFeatures)}
    /\ outcome = "none"
    /\ report = NoReport
    /\ first = [outcome |-> "none", report |-> NoReport]
    /\ _applications = InitialStore

CalcJobStability ==
    Calc("job_stability", calculate_job_stability_score(professional.f))
CalcProfessionalCredibility ==
    Calc("professional_credibility",
         calculate_professional_credibility_score(professional.f))
CalcLifestyleStability ==
    Calc("lifestyle_stability", calculate_lifestyle_stability_score(lifestyle.f))
CalcIncomeLifestyleAlignment ==
    Calc("income_lifestyle_alignment",
         calculate_income_lifestyle_alignment(lifestyle.f))
CalcSocialSupport ==
    Calc("social_support", calculate_social_support_score(social.f))
CalcCommunityRootedness ==
    Calc("community_rootedness", calculate_community_rootedness_score(social.f))
CalcRelationshipStability ==
    Calc("relationship_stability",
         calculate_relationship_stability_score(social.f))

NextDerived ==
    \/ CalcJobStability
    \/ CalcProfessionalCredibility
    \/ CalcLifestyleStability
    \/ CalcIncomeLifestyleAlignment
    \/ CalcSocialSupport
    \/ CalcCommunityRootedness
    \/ CalcRelationshipStability

SpecDerived == InitDerived /\ [][NextDerived]_vars

-----------------------------------------------------------------------------
(* SpecExtract: one call of extract_all_features.  arg holds the three     *)
(* analysis texts and val the CombinedFeatures returned.                   *)

\* application records handed in as traditional_data
TraditionalData ==
    { TEST_CASES[1], TEST_CASES[4],
      [TEST_CASES[1] EXCEPT !.credit_score = AbsentCell],
      [TEST_CASES[1] EXCEPT !.credit_score = NoneCell] }

InitExtract ==
    /\ pc = "start"
    /\ fn = "extract_all_features"
    /\ arg \in [professional : Texts, lifestyle : Texts, social : Texts]
    /\ val = 0
    /\ client \in {"configured", "none"}
    /\ application \in TraditionalData
    /\ professional = NoGroup(ProfessionalFeatures)
    /\ lifestyle = NoGroup(LifestyleFeatures)
    /\ social = NoGroup(SocialConnectednessFeatures)
    /\ outcome = "none"
    /\ report = NoReport
    /\ first = [outcome |-> "none", report |-> NoReport]
    /\ _applications = InitialStore

ExtractAllFeatures ==
    /\ pc = "start"
    /\ fn = "extract_all_features"
    /\ \E responses \in [ professional : Responses, lifestyle : Responses,
                          social : Responses ] :
         LET result == extract_all_features(client, application, arg, responses)
         IN  /\ outcome' = result.outcome
             /\ val' = result.features
    /\ pc' = "done"
    /\ UNCHANGED <<fn, arg, client, application, professional, lifestyle,
                   social, report, first,
                   _applications>>

NextExtract == ExtractAllFeatures

SpecExtract == InitExtract /\ [][NextExtract]_vars

-----------------------------------------------------------------------------
(* SpecFactors: one call of score_application on metrics at and next to    *)
(* the thresholds of the factor lists, with feature structs whose modifier *)
(* terms lie at, above and below +1 and -1.                                *)

BoundaryApplications ==
    { App("NEW-BOU", "Boundary", credit_score, dti, ltv, employment_years,
          reserves_months) :
        credit_score \in {619, 620, 739, 740}, dti \in {280, 281, 430, 431},
        ltv \in {800, 801, 900, 901}, employment_years \in {19, 20, 49, 50},
        reserves_months \in {2, 3, 5, 6} }

\* derived scores whose terms are +1, +2, -1.5, 0, +1, -1, 0
ScoresAtOne ==
    [ professional_credibility |-> 2500, job_stability |-> 0,
      lifestyle_stability |-> ScoreOne, income_lifestyle_alignment |-> 5000,
      social_support |-> 0, community_rootedness |-> ScoreOne,
      relationship_stability |-> 5000 ]

\* derived scores whose terms are -1, -2, +1.5, -0.75, -0.5, +0.5, -1
ScoresAtMinusOne ==
    [ professional_credibility |-> 7500, job_stability |-> ScoreOne,
      lifestyle_stability |-> 0, income_lifestyle_alignment |-> 7500,
      social_support |-> 7500, community_rootedness |-> 2500,
      relationship_stability |-> ScoreOne ]

\* the three feature arguments of a call
FeatureCases ==
    { << NoGroup(ProfessionalFeatures), NoGroup(LifestyleFeatures),
         NoGroup(SocialConnectednessFeatures) >>,
      << Group(ProfessionalWith(ScoresAtOne, FlagKeys)),
         Group(LifestyleWith(ScoresAtOne, FlagKeys)),
         Group(SocialWith(ScoresAtOne, FlagKeys)) >>,
      << Group(ProfessionalWith(ScoresAtMinusOne, {})),
         Group(LifestyleWith(ScoresAtMinusOne, {})),
         Group(SocialWith(ScoresAtMinusOne, {})) >>,
      << Group(build_professional_features(ProfessionalExtraction)),
         NoGroup(LifestyleFeatures),
         Group(build_social_features(SocialExtraction)) >> }

InitFactors ==
    /\ pc = "start"
    /\ fn = "none" /\ arg = 0 /\ val = 0
    /\ client = "none"
    /\ application \in BoundaryApplications
    /\ \E case \in FeatureCases :
         /\ professional = case[1]
         /\ lifestyle = case[2]
         /\ social = case[3]
    /\ outcome = "none"
    /\ report = NoReport
    /\ first = [outcome |-> "none", report |-> NoReport]
    /\ _applications = InitialStore

SpecFactors == InitFactors /\ [][Next]_vars

-----------------------------------------------------------------------------
(* RiskScorer.score_from_form.  loan_amount, property_value and            *)
(* annual_income are in thousands of dollars, monthly_debts in dollars,    *)
(* employment_years in tenths; dti and ltv come out in tenths of a percent *)
(* (round(x, 1)).                                                          *)

\* rate * (1 + rate)**term / ((1 + rate)**term - 1) with rate = 0.065 / 12
\* and term = 360: the monthly payment per thousand dollars of loan, in
\* ten-thousandths of a dollar (6.3207)
PaymentPerThousand == 63207

monthly_payment(loan_amount) == loan_amount * PaymentPerThousand

\* (total_monthly_debt / monthly_income) * 100 if monthly_income > 0 else 50
form_dti(monthly_debts, loan_amount, annual_income) ==
    IF annual_income > 0
    THEN Quotient((monthly_debts * ScoreOne + monthly_payment(loan_amount)) * 12,
                  annual_income * ScoreOne)
    ELSE [raised |-> FALSE, v |-> 500]

\* (loan_amount / property_value) * 100 if property_value > 0 else 100
form_ltv(loan_amount, property_value) ==
    IF property_value > 0
    THEN Quotient(loan_amount * 1000, property_value)
    ELSE [raised |-> FALSE, v |-> 1000]

\* borrower_name[:3].upper() for the names the model submits
Upper3(borrower_name) ==
    CASE borrower_name = "James Morrison" -> "JAM"
      [] borrower_name = "Al" -> "AL"
      [] OTHER -> "ANN"

score_from_form(self_client, complete, form) ==
    LET dti == form_dti(form.monthly_debts, form.loan_amount, form.annual_income)
        ltv == form_ltv(form.loan_amount, form.property_value)
        app == App("NEW-" \o Upper3(form.borrower_name), form.borrower_name,
                   form.credit_score, dti.v, ltv.v, form.employment_years,
                   form.reserves_months)
                 @@ [ loan_amount |-> Num(form.loan_amount),
                      property_value |-> Num(form.property_value),
                      annual_income |-> Num(form.annual_income) ]
    IN  IF dti.raised \/ ltv.raised
        THEN [outcome |-> "raised", report |-> NoReport]
        ELSE score_application(self_client, complete, app,
                               NoGroup(ProfessionalFeatures),
                               NoGroup(LifestyleFeatures),
                               NoGroup(SocialConnectednessFeatures))

-----------------------------------------------------------------------------
(* SpecForm: one call of score_from_form on a submitted form, or one call  *)
(* of extract_traditional_features on the data of such a form.             *)

FormLoans == {0, 200, 400}
FormValues == {0, 250, 500}
FormIncomes == {0, 60, 120}
FormDebts == {0, 1500}

Forms ==
    [ borrower_name : {"James Morrison", "Al"}, loan_amount : FormLoans,
      property_value : FormValues, credit_score : {620, 780},
      annual_income : FormIncomes, monthly_debts : FormDebts,
      employment_years : {80}, reserves_months : {3} ]

\* the application data of a form, with or without ratios already in it
FormData(form, with_ratios) ==
    [ credit_score |-> Num(form.credit_score),
      annual_income |-> Num(form.annual_income),
      monthly_debt_payments |-> Num(form.monthly_debts),
      loan_amount |-> Num(form.loan_amount),
      property_value |-> Num(form.property_value),
      reserves_months |-> Num(form.reserves_months),
      debt_to_income_ratio |-> IF with_ratios THEN Num(3500) ELSE AbsentCell,
      loan_to_value_ratio |-> IF with_ratios THEN Num(8000) ELSE AbsentCell ]

InitForm ==
    /\ pc = "start"
    /\ fn \in {"score_from_form", "extract_traditional_features"}
    /\ arg \in Forms
    /\ val = 0
    /\ client \in {"configured", "none"}
    /\ application \in {FormData(arg, with_ratios) : with_ratios \in BOOLEAN}
    /\ professional = NoGroup(ProfessionalFeatures)
    /\ lifestyle = NoGroup(LifestyleFeatures)
    /\ social = NoGroup(SocialConnectednessFeatures)
    /\ outcome = "none"
    /\ report = NoReport
    /\ first = [outcome |-> "none", report |-> NoReport]
    /\ _applications = InitialStore

ScoreFromForm ==
    /\ pc = "start"
    /\ fn = "score_from_form"
    /\ \E complete \in {"ok", "raises"} :
         LET result == score_from_form(client, complete, arg)
         IN  /\ outcome' = result.outcome
             /\ report' = result.report
    /\ pc' = "done"
    /\ UNCHANGED <<fn, arg, val, client, application, professional, lifestyle,
                   social, first,
                   _applications>>

ExtractTraditionalFeatures ==
    /\ pc = "start"
    /\ fn = "extract_traditional_features"
    /\ LET result == extract_traditional_features(application)
       IN  /\ outcome' = IF result.raised THEN "raised" ELSE "returned"
           /\ val' = result.f
    /\ pc' = "done"
    /\ UNCHANGED <<fn, arg, client, application, professional, lifestyle,
                   social, report, first,
                   _applications>>

NextForm == ScoreFromForm \/ ExtractTraditionalFeatures

SpecForm == InitForm /\ [][NextForm]_vars

-----------------------------------------------------------------------------
(* CombinedFeatures.to_model_input: the flat dict of normalised features,  *)
(* every value in ten-thousandths.  Raw 0-1 fields of the three feature    *)
(* groups are in hundredths, their derived scores and the two ratios of    *)
(* the traditional group in ten-thousandths, annual_income in thousands of *)
(* dollars.                                                                *)

\* x / d as a float, in ten-thousandths
Normalized(x, d) == (x * ScoreOne) \div d

\* a normalisation that forgets the cap
Capped_NoCap(x, d) == Normalized(x, d)

\* min(x / d, 1.0)
Capped(x, d) == Min(Normalized(x, d), ScoreOne)

\* 1.0 if flag else 0.0
Indicator(flag) == IF flag THEN ScoreOne ELSE 0

\* a raw 0-1 field, stored in hundredths
Raw(x) == x * 100

to_model_input(self) ==
    [ credit_score_normalized |->
          Max(0, Normalized(self.traditional.credit_score - 300, 550)),
      credit_history_years |-> Capped(self.traditional.credit_history_years, 30),
      annual_income_log |-> Capped(self.traditional.annual_income, 500),
      employment_length_normalized |->
          Capped(self.traditional.employment_length_months, 120),
      is_self_employed |-> Indicator(self.traditional.is_self_employed),
      income_verified |-> Indicator(self.traditional.income_verified),
      dti_ratio |-> Min(self.traditional.debt_to_income_ratio, ScoreOne),
      ltv_ratio |-> Min(self.traditional.loan_to_value_ratio, ScoreOne),
      is_primary_residence |-> Indicator(self.traditional.is_primary_residence),
      reserves_months_normalized |-> Capped(self.traditional.reserves_months, 12),
      current_job_months_normalized |->
          Capped(self.professional.current_job_months, 120),
      total_experience_years_normalized |->
          Capped(self.professional.total_experience_years, 30),
      jobs_last_5_years_normalized |->
          Capped(self.professional.jobs_last_5_years, 5),
      career_trajectory_normalized |->
          Normalized(self.professional.career_trajectory, 5),
      education_level_normalized |->
          Normalized(self.professional.education_level, 5),
      has_advanced_degree |-> Indicator(self.professional.has_advanced_degree),
      industry_stability |-> Raw(self.professional.industry_stability),
      profile_completeness |-> Raw(self.professional.profile_completeness),
      has_recommendations |-> Indicator(self.professional.has_recommendations),
      connection_count_normalized |->
          Normalized(self.professional.connection_count_tier, 3),
      employment_gaps_normalized |->
          Capped(self.professional.employment_gaps, 3),
      frequent_job_changes |-> Indicator(self.professional.frequent_job_changes),
      profile_inconsistencies_normalized |->
          Capped(self.professional.profile_inconsistencies, 3),
      job_stability_score |-> self.professional.job_stability_score,
      professional_credibility_score |->
          self.professional.professional_credibility_score,
      lifestyle_level_normalized |->
          Normalized(self.lifestyle.lifestyle_level, 5),
      spending_vs_income |-> Raw(self.lifestyle.apparent_spending_vs_income),
      luxury_items_visible |-> Indicator(self.lifestyle.luxury_items_visible),
      frequent_expensive_travel |->
          Indicator(self.lifestyle.frequent_expensive_travel),
      vehicle_tier_normalized |-> Normalized(self.lifestyle.vehicle_tier, 3),
      housing_quality_normalized |->
          Normalized(self.lifestyle.housing_quality_apparent, 3),
      appears_homeowner |-> Indicator(self.lifestyle.appears_homeowner),
      location_cost_of_living |-> Raw(self.lifestyle.location_cost_of_living),
      travel_frequency_normalized |->
          Normalized(self.lifestyle.travel_frequency, 3),
      expensive_hobbies |-> Indicator(self.lifestyle.expensive_hobbies),
      gambling_indicators |-> Indicator(self.lifestyle.gambling_indicators),
      substance_use_indicators |->
          Indicator(self.lifestyle.substance_use_indicators),
      financial_responsibility_signals |->
          Capped(self.lifestyle.financial_responsibility_signals, 5),
      financial_irresponsibility_signals |->
          Capped(self.lifestyle.financial_irresponsibility_signals, 5),
      lifestyle_stability_score |-> self.lifestyle.lifestyle_stability_score,
      income_lifestyle_alignment |-> self.lifestyle.income_lifestyle_alignment,
      followers_tier_normalized |->
          Normalized(self.social.total_followers_tier, 3),
      engagement_rate |-> Raw(self.social.engagement_rate),
      authentic_connections |-> Raw(self.social.authentic_connections),
      relationship_status_normalized |->
          Normalized(self.social.relationship_status, 4),
      family_presence |-> Raw(self.social.family_presence_in_content),
      stable_relationship |-> Indicator(self.social.appears_stable_relationship),
      has_children |-> Indicator(self.social.has_children),
      community_involvement |-> Raw(self.social.community_involvement),
      group_memberships_normalized |->
          Capped(self.social.group_memberships, 10),
      volunteer_charity |->
          Indicator(self.social.volunteer_charity_involvement),
      religious_community |-> Indicator(self.social.religious_community_ties),
      long_term_friendships |->
          Indicator(self.social.long_term_friendships_visible),
      local_community_ties |-> Raw(self.social.local_community_ties),
      geographic_stability |-> Raw(self.social.geographic_stability),
      social_isolation |-> Indicator(self.social.social_isolation_indicators),
      conflict_drama_normalized |->
          Capped(self.social.conflict_drama_indicators, 5),
      relationship_instability_normalized |->
          Capped(self.social.relationship_instability_signals, 5),
      social_support_score |-> self.social.social_support_score,
      community_rootedness_score |-> self.social.community_rootedness_score,
      relationship_stability_score |->
          self.social.relationship_stability_score ]

-----------------------------------------------------------------------------
(* SpecModelInput: to_model_input applied to feature groups whose raw      *)
(* fields sit at the ends of, and inside, their documented domains:        *)
(* credit score 300-850, counts and amounts from 0 up to MaxCount times    *)
(* the value the normalisation saturates at, tiers over their enumerated   *)
(* range, ratios and scores from 0 to 1.                                   *)

\* how many times over its saturation point a count or amount is sampled
MaxCount == 3

\* one struct per level: 0 the low end of every domain, 1 the high end,
\* 2 values inside, 3 the dataclass defaults
Levels == 0 .. 3

TraditionalAt(level) ==
    CASE level = 0 ->
           [ TraditionalFeatures EXCEPT !.credit_score = CreditLo,
                                        !.is_primary_residence = FALSE ]
      [] level = 1 ->
           [ credit_score |-> CreditHi, credit_history_years |-> 30 * MaxCount,
             annual_income |-> 500 * MaxCount,
             employment_length_months |-> 120 * MaxCount,
             is_self_employed |-> TRUE, income_verified |-> TRUE,
             debt_to_income_ratio |-> ScoreOne,
             monthly_debt_payments |-> 4000, loan_amount |-> 800,
             property_value |-> 800, loan_to_value_ratio |-> ScoreOne,
             loan_purpose |-> "refinance", property_type |-> "condo",
             is_primary_residence |-> TRUE, total_assets |-> 2000,
             liquid_assets |-> 500, reserves_months |-> 12 * MaxCount ]
      [] level = 2 ->
           extract_traditional_features(
               FormData([ credit_score |-> 780, annual_income |-> 120,
                          monthly_debts |-> 1500, loan_amount |-> 400,
                          property_value |-> 500, reserves_months |-> 3 ],
                        FALSE)).f
      [] OTHER -> TraditionalFeatures

ProfessionalAt(level) ==
    CASE level = 0 ->
           [ ProfessionalFeatures EXCEPT !.career_trajectory = 1,
               !.industry_stability = 0, !.profile_completeness = 0,
               !.connection_count_tier = 1, !.job_stability_score = 0,
               !.professional_credibility_score = 0 ]
      [] level = 1 ->
           [ current_job_months |-> 120 * MaxCount,
             total_experience_years |-> 30 * MaxCount,
             jobs_last_5_years |-> 5 * MaxCount, career_trajectory |-> 5,
             education_level |-> 5, has_advanced_degree |-> TRUE,
             industry_stability |-> 100, industry |-> "healthcare",
             profile_completeness |-> 100, has_recommendations |-> TRUE,
             connection_count_tier |-> 3, employment_gaps |-> 3 * MaxCount,
             frequent_job_changes |-> TRUE,
             profile_inconsistencies |-> 3 * MaxCount,
             job_stability_score |-> ScoreOne,
             professional_credibility_score |-> ScoreOne ]
      [] level = 2 -> build_professional_features(ProfessionalExtraction)
      [] OTHER -> ProfessionalFeatures

LifestyleAt(level) ==
    CASE level = 0 ->
           [ LifestyleFeatures EXCEPT !.lifestyle_level = 1,
               !.apparent_spending_vs_income = 0, !.vehicle_tier = 1,
               !.housing_quality_apparent = 1, !.location_cost_of_living = 0,
               !.travel_frequency = 1, !.lifestyle_stability_score = 0,
               !.income_lifestyle_alignment = 0 ]
      [] level = 1 ->
           [ lifestyle_level |-> 5, apparent_spending_vs_income |-> 100,
             luxury_items_visible |-> TRUE, frequent_expensive_travel |-> TRUE,
             vehicle_tier |-> 3, housing_quality_apparent |-> 3,
             appears_homeowner |-> TRUE, location_cost_of_living |-> 100,
             travel_frequency |-> 3, expensive_hobbies |-> TRUE,
             gambling_indicators |-> TRUE, substance_use_indicators |-> TRUE,
             financial_responsibility_signals |-> 5 * MaxCount,
             financial_irresponsibility_signals |-> 5 * MaxCount,
             lifestyle_stability_score |-> ScoreOne,
             income_lifestyle_alignment |-> ScoreOne ]
      [] level = 2 -> build_lifestyle_features(LifestyleExtraction)
      [] OTHER -> LifestyleFeatures

SocialAt(level) ==
    CASE level = 0 ->
           [ SocialConnectednessFeatures EXCEPT !.total_followers_tier = 1,
               !.engagement_rate = 0, !.authentic_connections = 0,
               !.family_presence_in_content = 0, !.community_involvement = 0,
               !.local_community_ties = 0, !.geographic_stability = 0,
               !.social_support_score = 0, !.community_rootedness_score = 0,
               !.relationship_stability_score = 0 ]
      [] level = 1 ->
           [ total_followers_tier |-> 3, engagement_rate |-> 100,
             authentic_connections |-> 100, relationship_status |-> 4,
             family_presence_in_content |-> 100,
             appears_stable_relationship |-> TRUE, has_children |-> TRUE,
             community_involvement |-> 100,
             group_memberships |-> 10 * MaxCount,
             volunteer_charity_involvement |-> TRUE,
             religious_community_ties |-> TRUE,
             long_term_friendships_visible |-> TRUE,
             local_community_ties |-> 100, geographic_stability |-> 100,
             social_isolation_indicators |-> TRUE,
             conflict_drama_indicators |-> 5 * MaxCount,
             relationship_instability_signals |-> 5 * MaxCount,
             social_support_score |-> ScoreOne,
             community_rootedness_score |-> ScoreOne,
             relationship_stability_score |-> ScoreOne ]
      [] level = 2 -> build_social_features(SocialExtraction)
      [] OTHER -> SocialConnectednessFeatures

InitModelInput ==
    /\ pc = "start"
    /\ fn = "to_model_input"
    /\ \E t \in Levels, p \in Levels, l \in Levels, s \in Levels :
         arg = [ traditional |-> TraditionalAt(t),
                 professional |-> ProfessionalAt(p),
                 lifestyle |-> LifestyleAt(l), social |-> SocialAt(s) ]
    /\ val = 0
    /\ client = "none"
    /\ application = TEST_CASES[1]
    /\ professional = NoGroup(ProfessionalFeatures)
    /\ lifestyle = NoGroup(LifestyleFeatures)
    /\ social = NoGroup(SocialConnectednessFeatures)
    /\ outcome = "none"
    /\ report = NoReport
    /\ first = [outcome |-> "none", report |-> NoReport]
    /\ _applications = InitialStore

ToModelInput ==
    /\ pc = "start"
    /\ fn = "to_model_input"
    /\ val' = to_model_input(arg)
    /\ outcome' = "returned"
    /\ pc' = "done"
    /\ UNCHANGED <<fn, arg, client, application, professional, lifestyle,
                   social, report, first,
                   _applications>>

NextModelInput == ToModelInput

SpecModelInput == InitModelInput /\ [][NextModelInput]_vars

-----------------------------------------------------------------------------
(* RiskCalculatorService (backend/app/services/risk_calculator.py).        *)
(* loan_amount, estimated_value and annual_income are in thousands of      *)
(* dollars, years_employed is a cell holding tenths of a year or None,     *)
(* ltv and dti are in thousandths of a percent; the returned dti_ratio and *)
(* ltv_ratio are in hundredths (round(x, 2)) and the interest rate in      *)
(* thousandths of a percent.  The payment estimate, a float that feeds     *)
(* nothing else, is not carried.                                           *)

\* (loan_amount / property_value) * 100
calculate_ltv(loan_amount, property_value) ==
    Quotient(loan_amount * 100000, property_value)

\* 0.00665 / (1 - (1 + 0.00665) ** -360), in ten-millionths (0.0073237)
DtiFactor == 73237

\* (monthly_payment / monthly_income) * 100
estimate_dti(loan_amount, annual_income) ==
    Quotient(loan_amount * DtiFactor * 12, annual_income * 100)

assess_credit_risk(credit_score) ==
    IF credit_score >= 760 THEN [score |-> 0, level |-> "Excellent"]
    ELSE IF credit_score >= 720 THEN [score |-> 10, level |-> "Very Good"]
    ELSE IF credit_score >= 680 THEN [score |-> 20, level |-> "Good"]
    ELSE IF credit_score >= 640 THEN [score |-> 28, level |-> "Fair"]
    ELSE [score |-> 35, level |-> "Poor"]

assess_dti_risk(dti_ratio) ==
    IF dti_ratio <= 28000 THEN [score |-> 0, level |-> "Excellent"]
    ELSE IF dti_ratio <= 36000 THEN [score |-> 10, level |-> "Good"]
    ELSE IF dti_ratio <= 43000 THEN [score |-> 20, level |-> "Acceptable"]
    ELSE IF dti_ratio <= 50000 THEN [score |-> 28, level |-> "High"]
    ELSE [score |-> 35, level |-> "Excessive"]

assess_ltv_risk(ltv_ratio) ==
    IF ltv_ratio <= 80000 THEN [score |-> 0, level |-> "Low"]
    ELSE IF ltv_ratio <= 90000 THEN [score |-> 10, level |-> "Moderate"]
    ELSE IF ltv_ratio <= 95000 THEN [score |-> 20, level |-> "Elevated"]
    ELSE [score |-> 30, level |-> "High"]

assess_employment_risk(years_employed) ==
    IF years_employed.kind = "none" \/ years_employed.val = 0
    THEN [score |-> 10, level |-> "Unknown"]
    ELSE IF years_employed.val >= 50 THEN [score |-> 0, level |-> "Stable"]
    ELSE IF years_employed.val >= 20 THEN [score |-> 3, level |-> "Adequate"]
    ELSE IF years_employed.val >= 10 THEN [score |-> 7, level |-> "Marginal"]
    ELSE [score |-> 10, level |-> "Insufficient"]

assess_income_risk(annual_income) ==
    IF annual_income >= 100 THEN [score |-> 0, level |-> "Strong"]
    ELSE IF annual_income >= 75 THEN [score |-> 3, level |-> "Good"]
    ELSE IF annual_income >= 50 THEN [score |-> 7, level |-> "Adequate"]
    ELSE [score |-> 10, level |-> "Limited"]

assess_property_risk(property_type, occupancy) ==
    LET risk_score ==
            5 + (IF occupancy = "Investment Property" THEN 10 ELSE 0)
              + (IF property_type \in {"Condo", "PUD"} THEN 5 ELSE 0)
    IN  [ score |-> risk_score,
          level |-> IF risk_score <= 10 THEN "Low"
                    ELSE IF risk_score <= 15 THEN "Moderate" ELSE "Elevated" ]

\* a total that is not clamped
calculate_overall_risk_score_Unclamped(credit_risk, dti_risk, ltv_risk, employment_risk, income_risk, property_risk) ==
    credit_risk.score + dti_risk.score + ltv_risk.score
    + employment_risk.score + income_risk.score

\* min(100, max(0, int(total_score))); property_risk is not in the sum
calculate_overall_risk_score(credit_risk, dti_risk, ltv_risk, employment_risk, income_risk, property_risk) ==
    Min(100, Max(0, credit_risk.score + dti_risk.score + ltv_risk.score
                    + employment_risk.score + income_risk.score))

determine_risk_level(risk_score) ==
    IF risk_score <= 30 THEN "low"
    ELSE IF risk_score <= 60 THEN "medium" ELSE "high"

\* the decision the recommendation text opens with, and its conditions
generate_recommendation(risk_score, risk_level, ltv_ratio, dti_ratio, credit_score) ==
    IF risk_level = "low"
    THEN [decision |-> "APPROVED", conditions |-> << >>]
    ELSE IF risk_level = "medium"
    THEN [ decision |-> "CONDITIONAL APPROVAL",
           conditions |->
               (IF ltv_ratio > 80000 THEN <<"PMI required">> ELSE << >>)
               \o (IF dti_ratio > 36000
                   THEN <<"additional income verification">> ELSE << >>)
               \o (IF credit_score < 700
                   THEN <<"higher interest rate">> ELSE << >>) ]
    ELSE [decision |-> "DECLINE", conditions |-> << >>]

estimate_interest_rate(risk_score, loan_type) ==
    LET base_rate ==
            IF loan_type = "15-Year Fixed Conventional" THEN 6500 - 500
            ELSE IF loan_type \in {"7/1 ARM", "5/1 ARM"} THEN 6500 - 750
            ELSE 6500
    IN  base_rate + risk_score * 25

\* raised: the division by a zero income or property value ended the call
calculate_risk(request) ==
    LET ltv_ratio == calculate_ltv(request.loan_amount, request.estimated_value)
        dti_ratio == estimate_dti(request.loan_amount, request.annual_income)
        credit_risk == assess_credit_risk(request.credit_score)
        dti_risk == assess_dti_risk(dti_ratio.v)
        ltv_risk == assess_ltv_risk(ltv_ratio.v)
        employment_risk == assess_employment_risk(request.years_employed)
        income_risk == assess_income_risk(request.annual_income)
        property_risk == assess_property_risk(request.property_type,
                                              request.occupancy)
        risk_score ==
            calculate_overall_risk_score(credit_risk, dti_risk, ltv_risk,
                                         employment_risk, income_risk,
                                         property_risk)
        risk_level == determine_risk_level(risk_score)
    IN  IF ltv_ratio.raised \/ dti_ratio.raised
        THEN [raised |-> TRUE]
        ELSE [ raised |-> FALSE,
               risk_score |-> risk_score,
               risk_level |-> risk_level,
               dti_ratio |-> RoundHalfEven(dti_ratio.v, 10),
               ltv_ratio |-> RoundHalfEven(ltv_ratio.v, 10),
               risk_factors |->
                   [ credit_score_risk |-> credit_risk.level,
                     dti_ratio_risk |-> dti_risk.level,
                     ltv_ratio_risk |-> ltv_risk.level,
                     employment_stability_risk |-> employment_risk.level,
                     income_verification_risk |-> income_risk.level,
                     property_risk |-> property_risk.level ],
               recommendation |->
                   generate_recommendation(risk_score, risk_level, ltv_ratio.v,
                                           dti_ratio.v, request.credit_score),
               estimated_interest_rate |->
                   estimate_interest_rate(risk_score, request.loan_type) ]

-----------------------------------------------------------------------------
(* SpecRisk: one call of calculate_risk on a valid LoanApplicationRequest  *)
(* (credit score 300-850, positive income, positive property value), with  *)
(* values on both sides of every bracket boundary.                         *)

RequestCredits == {CreditLo, 639, 640, 680, 720, 760, CreditHi}
RequestIncomes == {30, 40, 50, 75, 100}
RequestYears == {NoneCell, Num(0), Num(5), Num(10), Num(20), Num(50)}
RequestLoans == {160, 180, 190, 200}

\* LoanApplicationRequest, the fields the calculator and the route read
LoanApplicationRequest(credit_score, annual_income, years_employed, loan_amount, estimated_value) ==
    [ full_name |-> "Test User", credit_score |-> credit_score,
      annual_income |-> annual_income, years_employed |-> years_employed,
      loan_amount |-> loan_amount, estimated_value |-> estimated_value,
      loan_type |-> "30-Year Fixed Conventional",
      property_type |-> "Single Family Detached",
      occupancy |-> "Primary Residence" ]

ValidRequests ==
    { LoanApplicationRequest(credit_score, annual_income, years_employed,
                             loan_amount, 200) :
        credit_score \in RequestCredits, annual_income \in RequestIncomes,
        years_employed \in RequestYears, loan_amount \in RequestLoans }
    \cup { [ LoanApplicationRequest(720, 85, Num(50), 350, 425) EXCEPT
               !.loan_type = loan_type, !.property_type = property_type,
               !.occupancy = occupancy ] :
             loan_type \in {"30-Year Fixed Conventional",
                            "15-Year Fixed Conventional", "5/1 ARM"},
             property_type \in {"Single Family Detached", "Condo"},
             occupancy \in {"Primary Residence", "Investment Property"} }

InitRisk ==
    /\ pc = "start"
    /\ fn = "calculate_risk"
    /\ arg \in ValidRequests
    /\ val = 0
    /\ client = "none"
    /\ application = TEST_CASES[1]
    /\ professional = NoGroup(ProfessionalFeatures)
    /\ lifestyle = NoGroup(LifestyleFeatures)
    /\ social = NoGroup(SocialConnectednessFeatures)
    /\ outcome = "none"
    /\ report = NoReport
    /\ first = [outcome |-> "none", report |-> NoReport]
    /\ _applications = InitialStore

CalculateRisk ==
    /\ pc = "start"
    /\ fn = "calculate_risk"
    /\ LET result == calculate_risk(arg)
       IN  /\ outcome' = IF result.raised THEN "raised" ELSE "returned"
           /\ val' = result
    /\ pc' = "done"
    /\ UNCHANGED <<fn, arg, client, application, professional, lifestyle,
                   social, report, first,
                   _applications>>

NextRisk == CalculateRisk

SpecRisk == InitRisk /\ [][NextRisk]_vars

-----------------------------------------------------------------------------
(* SpecGroups: one call of an extractor of one group, or one call of       *)
(* extract_all_features, with the behaviour of each extraction call fixed  *)
(* by Init: arg.response for the single extractors, arg.responses for      *)
(* extract_all_features.                                                   *)

GroupNames == {"professional", "lifestyle", "social"}

InitGroups ==
    /\ pc = "start"
    /\ fn \in { "extract_professional_features", "extract_lifestyle_features",
                "extract_social_features", "extract_all_features" }
    /\ arg \in [ professional : Texts, lifestyle : Texts, social : Texts,
                 response : Responses, responses : [GroupNames -> Responses] ]
    /\ fn # "extract_all_features" =>
         /\ arg.professional = "analysis" /\ arg.lifestyle = "analysis"
         /\ arg.social = "analysis"
         /\ \A g \in GroupNames : arg.responses[g] = arg.response
    /\ fn = "extract_all_features" => arg.response = arg.responses.professional
    /\ val = 0
    /\ client \in {"configured", "none"}
    /\ application = TEST_CASES[1]
    /\ professional = NoGroup(ProfessionalFeatures)
    /\ lifestyle = NoGroup(LifestyleFeatures)
    /\ social = NoGroup(SocialConnectednessFeatures)
    /\ outcome = "none"
    /\ report = NoReport
    /\ first = [outcome |-> "none", report |-> NoReport]
    /\ _applications = InitialStore

\* val: the struct returned, or the exception raised
ExtractGroup(name, result) ==
    /\ pc = "start"
    /\ fn = name
    /\ outcome' = IF result.raised THEN "raised" ELSE "returned"
    /\ val' = IF result.raised THEN [error |-> result.error] ELSE result.f
    /\ pc' = "done"
    /\ UNCHANGED <<fn, arg, client, application, professional, lifestyle,
                   social, report, first,
                   _applications>>

ExtractProfessionalFeatures ==
    ExtractGroup("extract_professional_features",
                 extract_professional_features(client, arg.response))

ExtractLifestyleFeatures ==
    ExtractGroup("extract_lifestyle_features",
                 extract_lifestyle_features(client, arg.response))

ExtractSocialFeatures ==
    ExtractGroup("extract_social_features",
                 extract_social_features(client, arg.response))

ExtractAllWithResponses ==
    LET result == extract_all_features(client, application, arg, arg.responses)
    IN  ExtractGroup("extract_all_features",
                     [ raised |-> result.outcome = "raised",
                       error |-> result.error, f |-> result.features ])

NextGroups ==
    \/ ExtractProfessionalFeatures
    \/ ExtractLifestyleFeatures
    \/ ExtractSocialFeatures
    \/ ExtractAllWithResponses

SpecGroups == InitGroups /\ [][NextGroups]_vars

-----------------------------------------------------------------------------
(* SpecPair: score_application on an application, then on the same         *)
(* application with a strictly higher credit score (arg), the feature      *)
(* groups unchanged.                                                       *)

\* lower and higher credit score: the ends of the domain, the two sides of
\* every band boundary, and two scores inside one band
CreditPairs ==
    { <<CreditLo, CreditHi>>, <<579, 580>>, <<669, 670>>, <<739, 740>>,
      <<799, 800>>, <<700, 720>> }

PairApplications ==
    { App("LN-PAIR", "Pair", pair[1], dti, ltv, employment_years,
          reserves_months) :
        pair \in CreditPairs, dti \in {220, 260, 360}, ltv \in {700, 800},
        employment_years \in {30, 100}, reserves_months \in {1, 6} }

InitPair ==
    /\ pc = "start"
    /\ fn = "score_application"
    /\ application \in PairApplications
    /\ arg \in { pair[2] : pair \in { q \in CreditPairs :
                                        Num(q[1]) = application.credit_score } }
    /\ val = 0
    /\ client = "none"
    /\ professional \in { NoGroup(ProfessionalFeatures),
                          Group(build_professional_features(ProfessionalExtraction)) }
    /\ lifestyle = NoGroup(LifestyleFeatures)
    /\ social \in { NoGroup(SocialConnectednessFeatures),
                    Group(build_social_features(EmptyExtraction)) }
    /\ outcome = "none"
    /\ report = NoReport
    /\ first = [outcome |-> "none", report |-> NoReport]
    /\ _applications = InitialStore

ScoreLowerCredit ==
    /\ pc = "start"
    /\ fn = "score_application"
    /\ first' = score_application(client, "ok", application, professional,
                                  lifestyle, social)
    /\ pc' = "second"
    /\ UNCHANGED <<fn, arg, val, client, application, professional, lifestyle,
                   social, outcome, report,
                   _applications>>

ScoreHigherCredit ==
    /\ pc = "second"
    /\ LET result ==
               score_application(client, "ok",
                                 [application EXCEPT !.credit_score = Num(arg)],
                                 professional, lifestyle, social)
       IN  /\ outcome' = result.outcome
           /\ report' = result.report
    /\ pc' = "done"
    /\ UNCHANGED <<fn, arg, val, client, application, professional, lifestyle,
                   social, first,
                   _applications>>

NextPair == ScoreLowerCredit \/ ScoreHigherCredit

SpecPair == InitPair /\ [][NextPair]_vars

-----------------------------------------------------------------------------
(* backend routes/loan_applications.py: create_loan_application and        *)
(* update_status.  The ai_summary is the dict check_compliance returns:    *)
(* the "ai_assessment" object of the LLM's JSON answer, or {} when the     *)
(* call or the parsing failed; a key it lacks is an absent cell.  Of the   *)
(* response, the fields the handler computes itself are kept.              *)

\* a JSON number with a fraction, in tenths
Float(v) == [kind |-> "float", val |-> v]
\* the JSON token Infinity
Infinity == [kind |-> "inf", val |-> 0]
Dict(v) == [kind |-> "dict", val |-> v]
\* a JSON string whose content the handler does not read
Text == [kind |-> "str", val |-> 0]

\* dict.get(key): None for a missing key
DictGet(cell) == IF cell.kind = "absent" THEN NoneCell ELSE cell

\* isinstance(value, (int, float))
IsNumber(cell) == cell.kind \in {"num", "float", "inf"}

\* int(value): truncation toward zero; OverflowError for an infinity
IntOf(cell) ==
    CASE cell.kind = "num" -> [raised |-> FALSE, v |-> cell.val]
      [] cell.kind = "float" ->
           [ raised |-> FALSE,
             v |-> IF cell.val >= 0 THEN cell.val \div 10
                   ELSE 0 - ((0 - cell.val) \div 10) ]
      [] OTHER -> [raised |-> TRUE, v |-> 0]

\* the AI-determined score if it is a number, else (or when the conversion
\* raises) the calculated score
ChooseRiskScore(ai_summary, risk_assessment) ==
    LET ai_risk_score == DictGet(ai_summary.ai_risk_score)
        converted == IntOf(ai_risk_score)
    IN  IF ai_risk_score.kind # "none" /\ IsNumber(ai_risk_score)
        THEN IF converted.raised THEN risk_assessment.risk_score
             ELSE converted.v
        ELSE risk_assessment.risk_score

\* the status a new application gets from its risk score
InitialStatus(risk_score) ==
    IF risk_score <= 35 THEN "approved"
    ELSE IF risk_score <= 60 THEN "review"
    ELSE "declined"

\* status_code "500": the analysis raised and nothing was saved
create_loan_application(store, application_id, request, ai_summary) ==
    LET calculated == calculate_risk(request)
        ltv_ratio ==
            RoundHalfEven(request.loan_amount * 1000,
                          request.estimated_value)
        risk_score == ChooseRiskScore(ai_summary, calculated)
        status == InitialStatus(risk_score)
        risk_assessment ==
            IF DictGet(ai_summary.ai_risk_score).kind # "none"
            THEN [calculated EXCEPT !.risk_score = risk_score]
            ELSE calculated
        empty == ai_summary.ai_risk_score.kind = "absent"
                   /\ ai_summary.summary.kind = "absent"
        response ==
            [ application_id |-> application_id, status |-> status,
              submitted_at |-> Str("now"), processed_at |-> Str("now"),
              risk_assessment |-> risk_assessment,
              ai_summary |-> IF empty THEN NoneCell ELSE Dict(ai_summary) ]
    IN  IF calculated.raised
        THEN [ status_code |-> "500", response |-> NoReport, store |-> store ]
        ELSE [ status_code |-> "200", response |-> response,
               store |->
                 save_application(store, application_id,
                   [ application_id |-> application_id, status |-> status,
                     borrower_name |-> request.full_name,
                     loan_type |-> request.loan_type,
                     loan_amount |-> request.loan_amount,
                     property_value |-> request.estimated_value,
                     ltv_ratio |-> ltv_ratio, risk_score |-> risk_score,
                     credit_score |-> request.credit_score,
                     annual_income |-> request.annual_income,
                     dti_ratio |-> risk_assessment.dti_ratio,
                     ai_summary |->
                         IF ai_summary.summary.kind = "absent" THEN Str("")
                         ELSE ai_summary.summary,
                     ai_risk_score |-> DictGet(ai_summary.ai_risk_score),
                     submitted_at |-> Str("now"), processed_at |-> Str("now"),
                     updated_at |-> AbsentCell,
                     full_response |-> Dict(response) ]) ]

valid_statuses == {"approved", "pending", "review", "declined"}

\* a handler that writes whatever status the request carries
update_status_Unvalidated(store, application_id, status) ==
    LET app == get_application(store, application_id)
    IN  IF ~app.found
        THEN [ status_code |-> "404", response |-> NoReport, store |-> store ]
        ELSE [ status_code |-> "200",
               response |->
                 [ application_id |-> application_id,
                   old_status |-> app.app.status, new_status |-> status ],
               store |->
                 update_application_status(store, application_id, status) ]

\* 400 for a status outside valid_statuses, 404 for an id not in the store
update_status(store, application_id, status) ==
    LET app == get_application(store, application_id)
    IN  IF status \notin valid_statuses
        THEN [ status_code |-> "400", response |-> NoReport, store |-> store ]
        ELSE IF ~app.found
        THEN [ status_code |-> "404", response |-> NoReport, store |-> store ]
        ELSE [ status_code |-> "200",
               response |->
                 [ application_id |-> application_id,
                   old_status |-> app.app.status, new_status |-> status ],
               store |->
                 update_application_status(store, application_id, status) ]

-----------------------------------------------------------------------------
(* SpecStore: any sequence of create_loan_application and update_status    *)
(* requests against the store, starting from the sample data.              *)

\* the applications submitted: the calculator test's applicant, and the
\* same with a zero property value, which ends the analysis
StoreRequests ==
    { LoanApplicationRequest(720, 85, Num(50), 350, 425),
      LoanApplicationRequest(720, 85, Num(50), 350, 0) }

\* the ai_risk_score values of the LLM's answer
AiRiskScores ==
    { AbsentCell, Num(50), Num(150), Num(0 - 5), Float(729), Infinity, Text }

AiSummaries ==
    { [ai_risk_score |-> AbsentCell, summary |-> AbsentCell] }
    \cup { [ai_risk_score |-> score, summary |-> Text] :
              score \in AiRiskScores }

\* f"LN-{year}-{uuid4 prefix}": a repeated prefix overwrites the record
NewIds == {"LN-2026-1f0c9a3e", "LN-2026-7b44d210"}

UpdateIds == {"LN-2024-08471", "LN-0000-00000"} \cup NewIds
RequestStatuses == {"approved", "pending", "archived"}

InitStore ==
    /\ pc = "serving"
    /\ fn = "none" /\ arg = 0 /\ val = 0
    /\ client = "none"
    /\ application = TEST_CASES[1]
    /\ professional = NoGroup(ProfessionalFeatures)
    /\ lifestyle = NoGroup(LifestyleFeatures)
    /\ social = NoGroup(SocialConnectednessFeatures)
    /\ outcome = "none"
    /\ report = NoReport
    /\ first = [outcome |-> "none", report |-> NoReport]
    /\ _applications = InitialStore

CreateLoanApplication ==
    /\ pc = "serving"
    /\ \E request \in StoreRequests, ai_summary \in AiSummaries,
          application_id \in NewIds :
         LET result == create_loan_application(_applications, application_id,
                                               request, ai_summary)
         IN  /\ fn' = "create_loan_application"
             /\ outcome' = result.status_code
             /\ report' = result.response
             /\ _applications' = result.store
    /\ UNCHANGED <<pc, arg, val, client, application, professional,
                   lifestyle, social, first>>

UpdateStatus ==
    /\ pc = "serving"
    /\ \E application_id \in UpdateIds, status \in RequestStatuses :
         LET result == update_status(_applications, application_id, status)
         IN  /\ fn' = "update_status"
             /\ outcome' = result.status_code
             /\ report' = result.response
             /\ _applications' = result.store
    /\ UNCHANGED <<pc, arg, val, client, application, professional,
                   lifestyle, social, first>>

NextStore == CreateLoanApplication \/ UpdateStatus

SpecStore == InitStore /\ [][NextStore]_vars

-----------------------------------------------------------------------------
(* Properties *)

Returned == pc = "done" /\ outcome = "returned"

AnyGroup == professional.given \/ lifestyle.given \/ social.given

\* the structs the modifier computation reads
UsedProfessional ==
    IF professional.given THEN professional.f ELSE ProfessionalFeatures
UsedLifestyle == IF lifestyle.given THEN lifestyle.f ELSE LifestyleFeatures
UsedSocial == IF social.given THEN social.f ELSE SocialConnectednessFeatures

MetricsAre(credit_score, dti, ltv, employment_years, reserves_months) ==
    /\ application.credit_score = Num(credit_score)
    /\ application.dti = Num(dti)
    /\ application.ltv = Num(ltv)
    /\ application.employment_years = Num(employment_years)
    /\ application.reserves_months = Num(reserves_months)

\* C1: every report returned by score_application carries a risk_score that
\* is an integer between 0 and 100, whatever the metrics and feature groups.
C1_RiskScoreInRange ==
    Returned => report.risk_score \in 0 .. 100

\* C1 witness: a report for out-of-domain extremes whose unclamped final
\* score lies above 100.
C1_Witness ==
    /\ Returned
    /\ MetricsAre(CreditLo - Slack, MaxPct * 10, 956, 0 - MaxExcess * 10,
                  0 - MaxExcess)
    /\ AnyGroup
    /\ report.base_score + report.total_modifier_adjustment > 100 * Unit
    /\ report.risk_score = 100

\* C2: scoring credit 580, dti 48, ltv 95.6, employment 1 year, reserves 1
\* month without feature groups gives Very High / Decline and a score in
\* 80..89.
C2_RobertBlakeVeryHigh ==
    (Returned /\ MetricsAre(580, 480, 956, 10, 1) /\ ~AnyGroup)
        => /\ report.risk_category = "Very High"
           /\ report.recommendation = "Decline"
           /\ report.risk_score \in 80 .. 89

\* C3: over the integer credit scores of [300, 850] the credit risk never
\* increases when the credit score increases.
C3_CreditRiskMonotone ==
    (pc = "done" /\ fn = "credit" /\ arg \in CreditLo .. CreditHi)
        => \A a \in CreditLo .. (arg - 1) : calculate_credit_risk(a) >= val

\* C4: none of the five component functions returns more than 100, at any
\* numeric input.
C4_ComponentsAtMost100 ==
    (pc = "done" /\ fn # "none") => val <= 100 * Milli

\* C5: total_modifier_adjustment is the sum of the modifier_breakdown values
\* clamped to [-10, +10], so it lies within [-10, +10].
C5_ModifierClamped ==
    Returned =>
        LET total == SumValues(report.modifier_breakdown)
        IN  /\ report.total_modifier_adjustment =
                 (IF total > 10 * Unit THEN 10 * Unit
                  ELSE IF total < 0 - 10 * Unit THEN 0 - 10 * Unit
                  ELSE total)
            /\ report.total_modifier_adjustment >= 0 - 10 * Unit
            /\ report.total_modifier_adjustment <= 10 * Unit

\* C5 witness: a report whose modifier terms add up to less than -10.
C5_Witness ==
    /\ Returned
    /\ SumValues(report.modifier_breakdown) < 0 - 10 * Unit
    /\ report.total_modifier_adjustment = 0 - 10 * Unit

C7_NarrativeFailureKeepsReport ==
    (pc = "done" /\ first.outcome = "returned"
        /\ first.report.ai_analysis = "narrative")
        => /\ outcome = "returned"
           /\ report.risk_score = first.report.risk_score
           /\ report.risk_category = first.report.risk_category
           /\ report.recommendation = first.report.recommendation

\* C7 witness: the narrative succeeded in the first call and failed in the
\* second, which returned a report all the same.
C7_Witness ==
    /\ pc = "done"
    /\ first.outcome = "returned"
    /\ first.report.ai_analysis = "narrative"
    /\ outcome = "returned"
    /\ report.ai_analysis = "AI analysis error"

\* the serialised report without its ai_analysis entry
WithoutAi(d) == [key \in DOMAIN d \ {"ai_analysis"} |-> d[key]]

Enters(key, score) ==
    report.modifier_breakdown[key] = ModifierTerm(score, key)

\* C9 as stated: every derived score that enters the modifier computation
\* equals its formula applied to the raw fields of the same struct.
C9_DerivedScoresFromRawFields ==
    (Returned /\ AnyGroup) =>
        /\ Enters("job_stability",
                  calculate_job_stability_score(UsedProfessional))
        /\ Enters("professional_credibility",
                  calculate_professional_credibility_score(UsedProfessional))
        /\ Enters("lifestyle_stability",
                  calculate_lifestyle_stability_score(UsedLifestyle))
        /\ Enters("income_lifestyle_alignment",
                  calculate_income_lifestyle_alignment(UsedLifestyle))
        /\ Enters("social_support",
                  calculate_social_support_score(UsedSocial))
        /\ Enters("community_rootedness",
                  calculate_community_rootedness_score(UsedSocial))
        /\ Enters("relationship_stability",
                  calculate_relationship_stability_score(UsedSocial))

BuiltProfessional ==
    /\ professional.given
    /\ \E e \in {EmptyExtraction, ProfessionalExtraction} :
         professional.f = build_professional_features(e)
BuiltLifestyle ==
    /\ lifestyle.given
    /\ \E e \in {EmptyExtraction, LifestyleExtraction} :
         lifestyle.f = build_lifestyle_features(e)
BuiltSocial ==
    /\ social.given
    /\ \E e \in {EmptyExtraction, SocialExtraction} :
         social.f = build_social_features(e)

\* C9 amended: the derived scores that enter the modifier computation are the
\* derived-score fields stored in the struct passed in (0.5 for an omitted
\* group); they equal the formulas applied to the raw fields for a struct
\* returned by _build_*_features.
C9_StoredDerivedScoresEnter ==
    (Returned /\ AnyGroup) =>
        /\ Enters("job_stability", UsedProfessional.job_stability_score)
        /\ Enters("professional_credibility",
                  UsedProfessional.professional_credibility_score)
        /\ Enters("lifestyle_stability",
                  UsedLifestyle.lifestyle_stability_score)
        /\ Enters("income_lifestyle_alignment",
                  UsedLifestyle.income_lifestyle_alignment)
        /\ Enters("social_support", UsedSocial.social_support_score)
        /\ Enters("community_rootedness",
                  UsedSocial.community_rootedness_score)
        /\ Enters("relationship_stability",
                  UsedSocial.relationship_stability_score)
        /\ BuiltProfessional =>
             /\ Enters("job_stability",
                       calculate_job_stability_score(professional.f))
             /\ Enters("professional_credibility",
                       calculate_professional_credibility_score(professional.f))
        /\ BuiltLifestyle =>
             /\ Enters("lifestyle_stability",
                       calculate_lifestyle_stability_score(lifestyle.f))
             /\ Enters("income_lifestyle_alignment",
                       calculate_income_lifestyle_alignment(lifestyle.f))
        /\ BuiltSocial =>
             /\ Enters("social_support",
                       calculate_social_support_score(social.f))
             /\ Enters("community_rootedness",
                       calculate_community_rootedness_score(social.f))
             /\ Enters("relationship_stability",
                       calculate_relationship_stability_score(social.f))

\* C9 witness: a report for a built professional struct together with a
\* caller-set lifestyle struct whose derived scores lie outside [0, 1].
C9_Witness ==
    /\ Returned
    /\ professional = Group(build_professional_features(ProfessionalExtraction))
    /\ lifestyle.given
    /\ lifestyle.f.lifestyle_stability_score > ScoreOne
    /\ Enters("lifestyle_stability", lifestyle.f.lifestyle_stability_score)
    /\ ~Enters("lifestyle_stability",
               calculate_lifestyle_stability_score(lifestyle.f))

\* C10 as stated: a call with a required metric absent or None fails instead
\* of returning a report.
C10_MissingMetricFails ==
    (pc = "done" /\ Missing(application) # {}) => outcome = "raised"

IsAbsent(key) == application[key].kind = "absent"

\* C10 amended: the call fails when one of the five metrics is present with
\* value None; a metric absent from the record is replaced by a default
\* (credit_score 680, dti 36, ltv 80, employment_years 2, reserves_months 3)
\* and the report is computed from it.
C10_NoneFailsAbsentDefaults ==
    pc = "done" =>
        IF \E key \in MetricKeys : application[key].kind = "none"
        THEN outcome = "raised"
        ELSE /\ outcome = "returned"
             /\ IsAbsent("credit_score") =>
                  /\ report.credit_score = 680
                  /\ report.credit_component = calculate_credit_risk(680)
             /\ IsAbsent("dti") =>
                  /\ report.dti_ratio = 360
                  /\ report.dti_component = calculate_dti_risk(360)
             /\ IsAbsent("ltv") =>
                  /\ report.ltv_ratio = 800
                  /\ report.ltv_component = calculate_ltv_risk(800)
             /\ IsAbsent("employment_years") =>
                  report.employment_component = calculate_employment_risk(20)
             /\ IsAbsent("reserves_months") =>
                  report.reserves_component = calculate_reserves_risk(3)

\* C10 witness: a report returned for a record without credit_score.
C10_Witness ==
    /\ Returned
    /\ IsAbsent("credit_score")
    /\ report.credit_score = 680

\* the least and the greatest of the five components of the report
LeastComponent ==
    Min(report.credit_component,
        Min(report.dti_component,
            Min(report.ltv_component,
                Min(report.employment_component, report.reserves_component))))
GreatestComponent ==
    Max(report.credit_component,
        Max(report.dti_component,
            Max(report.ltv_component,
                Max(report.employment_component, report.reserves_component))))

\* C11: risk_score = round(clamp(base_score + total_modifier_adjustment, 0,
\* 100)) with base_score = 0.35 credit + 0.25 dti + 0.20 ltv + 0.10 employment
\* + 0.10 reserves risk; the weights sum to 1, so base_score lies between the
\* least and the greatest component.
C11_ScoreFromBaseAndModifier ==
    Returned =>
        LET final == report.base_score + report.total_modifier_adjustment
            clamped == IF final < 0 THEN 0
                       ELSE IF final > 100 * Unit THEN 100 * Unit ELSE final
        IN  /\ report.base_score =
                 35 * report.credit_component + 25 * report.dti_component
                 + 20 * report.ltv_component + 10 * report.employment_component
                 + 10 * report.reserves_component
            /\ report.risk_score = RoundHalfEven(clamped, Unit)
            /\ TRADITIONAL_WEIGHTS.credit_score + TRADITIONAL_WEIGHTS.dti
               + TRADITIONAL_WEIGHTS.ltv + TRADITIONAL_WEIGHTS.employment
               + TRADITIONAL_WEIGHTS.reserves = 100
            /\ report.base_score >= 100 * LeastComponent
            /\ report.base_score <= 100 * GreatestComponent

\* C11 witness: a report with unequal components and a modifier that is
\* neither zero nor capped, whose final score is not clamped and is rounded
\* up to the next integer.
C11_Witness ==
    /\ Returned
    /\ LeastComponent < GreatestComponent
    /\ report.total_modifier_adjustment \notin {0, 10 * Unit, 0 - 10 * Unit}
    /\ report.base_score + report.total_modifier_adjustment \in 1 .. (100 * Unit - 1)
    /\ report.risk_score * Unit
         > report.base_score + report.total_modifier_adjustment

\* C12: a call with none of the three feature groups skips the modifier
\* stage: total_modifier_adjustment is 0, modifier_breakdown is empty and
\* risk_score is the rounded, clamped base score of the five metrics.
C12_NoGroupsNoModifier ==
    (Returned /\ ~AnyGroup) =>
        /\ report.total_modifier_adjustment = 0
        /\ report.modifier_breakdown = EmptyBreakdown
        /\ report.risk_score =
             RoundHalfEven(
                 ClampFinal(
                     BaseScore(
                         calculate_credit_risk(AppGet(application, "credit_score", 680)),
                         calculate_dti_risk(AppGet(application, "dti", 360)),
                         calculate_ltv_risk(AppGet(application, "ltv", 800)),
                         calculate_employment_risk(
                             AppGet(application, "employment_years", 20)),
                         calculate_reserves_risk(
                             AppGet(application, "reserves_months", 3)))),
                 Unit)

\* C12 witness: a report for the James Morrison metrics without feature
\* groups, from a scorer with a configured client.
C12_Witness ==
    /\ Returned
    /\ ~AnyGroup
    /\ client = "configured"
    /\ MetricsAre(780, 280, 800, 80, 12)
    /\ report.modifier_breakdown = EmptyBreakdown
    /\ report.risk_score = 18

\* the derived score the modifier computation reads for a term
StoredScore(key) ==
    CASE key = "professional_credibility" ->
            UsedProfessional.professional_credibility_score
      [] key = "job_stability" -> UsedProfessional.job_stability_score
      [] key = "lifestyle_stability" -> UsedLifestyle.lifestyle_stability_score
      [] key = "income_lifestyle_alignment" ->
            UsedLifestyle.income_lifestyle_alignment
      [] key = "social_support" -> UsedSocial.social_support_score
      [] key = "community_rootedness" -> UsedSocial.community_rootedness_score
      [] key = "relationship_stability" ->
            UsedSocial.relationship_stability_score

\* the red flags set in the structs the modifier computation reads
FlagsSet ==
    (IF UsedLifestyle.gambling_indicators THEN {"gambling_flag"} ELSE {})
    \cup (IF UsedLifestyle.substance_use_indicators
          THEN {"substance_flag"} ELSE {})
    \cup (IF UsedProfessional.frequent_job_changes
          THEN {"job_hopping_flag"} ELSE {})
    \cup (IF UsedSocial.social_isolation_indicators
          THEN {"isolation_flag"} ELSE {})

C14_FlatFlagPenalties ==
    (Returned /\ AnyGroup) =>
        LET keys == DOMAIN report.modifier_breakdown
            final == report.base_score + 3 * Unit
        IN  /\ keys \cap FlagKeys = FlagsSet
            /\ "gambling_flag" \in keys
                 => report.modifier_breakdown["gambling_flag"] = 300000
            /\ "substance_flag" \in keys
                 => report.modifier_breakdown["substance_flag"] = 200000
            /\ "job_hopping_flag" \in keys
                 => report.modifier_breakdown["job_hopping_flag"] = 150000
            /\ "isolation_flag" \in keys
                 => report.modifier_breakdown["isolation_flag"] = 100000
            /\ ( /\ FlagsSet = {"gambling_flag"}
                 /\ \A key \in ScoreKeys : StoredScore(key) = 5000 )
                 => /\ report.total_modifier_adjustment = 3 * Unit
                    /\ report.risk_score =
                         RoundHalfEven(
                             IF final > 100 * Unit THEN 100 * Unit ELSE final,
                             Unit)

\* C14 witness: a report with only gambling_indicators set, all seven
\* derived scores at 0.5 and a modifier total of 3.0.
C14_Witness ==
    /\ Returned
    /\ FlagsSet = {"gambling_flag"}
    /\ \A key \in ScoreKeys : StoredScore(key) = 5000
    /\ report.modifier_breakdown["gambling_flag"] = 3 * Unit
    /\ report.total_modifier_adjustment = 3 * Unit
    /\ report.risk_score = RoundHalfEven(report.base_score, Unit) + 3

Applied(name) == pc = "done" /\ fn = name

\* C15: for a DTI percentage in [0, 200] the DTI risk lies in [5, 90]; for an
\* LTV percentage in [0, 200] the LTV risk lies in [5, 85].
C15_DtiLtvRiskRange ==
    /\ (Applied("dti") /\ arg \in 0 .. 2000) => val \in 5000 .. 90000
    /\ (Applied("ltv") /\ arg \in 0 .. 2000) => val \in 5000 .. 85000

\* C15 witness: the DTI risk of 200 percent, where the cap of 90 acts.
C15_Witness ==
    /\ Applied("dti")
    /\ arg = 2000
    /\ val = 90000
    /\ 70000 + (arg - 500) * 200 > 90000

\* C16: DTI risk and LTV risk never decrease when the percentage (to one
\* decimal) increases; employment risk and reserves risk never increase when
\* the non-negative years or whole months increase.
C16_OtherComponentsMonotone ==
    /\ Applied("dti")
         => \A a \in (0 - Slack) .. arg : calculate_dti_risk(a) <= val
    /\ Applied("ltv")
         => \A a \in (0 - Slack) .. arg : calculate_ltv_risk(a) <= val
    /\ (Applied("employment") /\ arg >= 0)
         => \A a \in 0 .. arg : calculate_employment_risk(a) >= val
    /\ (Applied("reserves") /\ arg >= 0)
         => \A a \in 0 .. arg : calculate_reserves_risk(a) >= val

\* C17: for an integer credit score in [300, 850] the credit risk lies in
\* the documented range of its band: 800-850 in 5..10, 740-799 in 10..20,
\* 670-739 in 20..35, 580-669 in 35..55, 300-579 in 55..80.
C17_CreditRiskWithinBand ==
    (Applied("credit") /\ arg \in CreditLo .. CreditHi) =>
        /\ arg >= 800 => val \in 5000 .. 10000
        /\ arg \in 740 .. 799 => val \in 10000 .. 20000
        /\ arg \in 670 .. 739 => val \in 20000 .. 35000
        /\ arg \in 580 .. 669 => val \in 35000 .. 55000
        /\ arg <= 579 => val \in 55000 .. 80000

\* C18: each of the seven derived-score functions returns a value in
\* [0.0, 1.0], whatever the raw fields, far outside their domains included.
C18_DerivedScoresInUnitRange ==
    (pc = "done" /\ fn \in ScoreKeys) => val \in 0 .. ScoreOne

\* C18 witness: the job stability score of a struct with a tenure far below
\* zero, whose unclamped value is negative and whose result is 0.0.
C18_Witness ==
    /\ Applied("job_stability")
    /\ professional.f.current_job_months = 0 - FarOut
    /\ professional.f.career_trajectory = 0 - FarOut
    /\ 5000 + professional.f.current_job_months * 50
         + (professional.f.career_trajectory - 3) * 500 < 0
    /\ val = 0

\* extract_all_features has returned its CombinedFeatures in val
Extracts == Applied("extract_all_features") /\ outcome = "returned"

\* C19 as stated: in the result of extract_all_features, a group whose own
\* analysis text is absent has the all-defaults struct and derived scores of
\* 0.5, whatever the other texts and the client.
C19_AbsentTextGivesDefaults ==
    Extracts =>
        /\ ~Truthy(arg.professional) =>
             /\ val.professional = ProfessionalFeatures
             /\ val.professional.job_stability_score = 5000
             /\ val.professional.professional_credibility_score = 5000
        /\ ~Truthy(arg.lifestyle) =>
             /\ val.lifestyle = LifestyleFeatures
             /\ val.lifestyle.lifestyle_stability_score = 5000
             /\ val.lifestyle.income_lifestyle_alignment = 5000
        /\ ~Truthy(arg.social) =>
             /\ val.social = SocialConnectednessFeatures
             /\ val.social.social_support_score = 5000
             /\ val.social.community_rootedness_score = 5000
             /\ val.social.relationship_stability_score = 5000

\* C19 amended: the professional and the lifestyle group are all-defaults
\* with derived scores 0.5 whenever their own text is absent; the social
\* group is so when its own text is absent and either the lifestyle text is
\* absent too or no client is configured.  With a client, a lifestyle text
\* and no social text, the social group is extracted from the lifestyle
\* text: all-defaults only if that extraction fails.
C19_AbsentTextDefaultsButSocial ==
    Extracts =>
        /\ ~Truthy(arg.professional) =>
             /\ val.professional = ProfessionalFeatures
             /\ val.professional.job_stability_score = 5000
             /\ val.professional.professional_credibility_score = 5000
        /\ ~Truthy(arg.lifestyle) =>
             /\ val.lifestyle = LifestyleFeatures
             /\ val.lifestyle.lifestyle_stability_score = 5000
             /\ val.lifestyle.income_lifestyle_alignment = 5000
        /\ (~Truthy(arg.social)
               /\ (~Truthy(arg.lifestyle) \/ client = "none")) =>
             /\ val.social = SocialConnectednessFeatures
             /\ val.social.social_support_score = 5000
             /\ val.social.community_rootedness_score = 5000
             /\ val.social.relationship_stability_score = 5000
        /\ (~Truthy(arg.social) /\ Truthy(arg.lifestyle)
               /\ client = "configured") =>
             val.social \in { SocialConnectednessFeatures,
                              build_social_features(EmptyExtraction),
                              build_social_features(SocialExtraction) }

\* C19 witness: with a client, a lifestyle text and neither a professional
\* nor a social text, the professional group is all-defaults and the social
\* group is not.
C19_Witness ==
    /\ Extracts
    /\ client = "configured"
    /\ arg = [professional |-> "", lifestyle |-> "analysis", social |-> "none"]
    /\ val.professional = ProfessionalFeatures
    /\ val.social # SocialConnectednessFeatures
    /\ val.social.social_support_score # 5000

\* the metrics and modifier terms named by the entries of a factor list
Named(factors) == {factors[i].metric : i \in DOMAIN factors}

\* C20: risk_factors holds one entry for each metric with credit < 620,
\* DTI > 43, LTV > 90, employment < 2, reserves < 3 and one for each modifier
\* term above 1; positive_factors one entry for each metric with
\* credit >= 740, DTI <= 28, LTV <= 80, employment >= 5, reserves >= 6 and
\* one for each term below -1; nothing else, and nothing in both lists.
C20_FactorListsFromThresholds ==
    Returned =>
        LET credit_score == report.credit_score
            dti == report.dti_ratio
            ltv == report.ltv_ratio
            employment_years == AppGet(application, "employment_years", 20)
            reserves_months == AppGet(application, "reserves_months", 3)
            terms == report.modifier_breakdown
            risky ==
                (IF credit_score < 620 THEN {"credit_score"} ELSE {})
                \cup (IF dti > 430 THEN {"dti"} ELSE {})
                \cup (IF ltv > 900 THEN {"ltv"} ELSE {})
                \cup (IF employment_years < 20 THEN {"employment_years"} ELSE {})
                \cup (IF reserves_months < 3 THEN {"reserves_months"} ELSE {})
                \cup {key \in DOMAIN terms : terms[key] > 100000}
            good ==
                (IF credit_score >= 740 THEN {"credit_score"} ELSE {})
                \cup (IF dti <= 280 THEN {"dti"} ELSE {})
                \cup (IF ltv <= 800 THEN {"ltv"} ELSE {})
                \cup (IF employment_years >= 50 THEN {"employment_years"} ELSE {})
                \cup (IF reserves_months >= 6 THEN {"reserves_months"} ELSE {})
                \cup {key \in DOMAIN terms : terms[key] < 0 - 100000}
        IN  /\ Named(report.risk_factors) = risky
            /\ Len(report.risk_factors) = Cardinality(risky)
            /\ Named(report.positive_factors) = good
            /\ Len(report.positive_factors) = Cardinality(good)
            /\ Named(report.risk_factors) \cap Named(report.positive_factors)
                 = {}

\* C20 witness: a report for metrics between the thresholds (no metric in
\* either list) whose modifier terms include one of exactly +1 that is not
\* listed, one above +1 and one below -1 that are.
C20_Witness ==
    /\ Returned
    /\ MetricsAre(620, 430, 900, 20, 3)
    /\ Named(report.risk_factors) \cap MetricKeys = {}
    /\ Named(report.positive_factors) \cap MetricKeys = {}
    /\ AnyGroup
    /\ report.modifier_breakdown["professional_credibility"] = 1 * Unit
    /\ "professional_credibility" \notin Named(report.risk_factors)
    /\ "job_stability" \in Named(report.risk_factors)
    /\ "lifestyle_stability" \in Named(report.positive_factors)


-----------------------------------------------------------------------------
(* Zero denominators *)

\* C21: zero denominators never raise.  score_from_form with annual_income
\* = 0 scores a DTI of 50 and with property_value = 0 an LTV of 100, and
\* returns a complete report; extract_traditional_features returns a struct
\* with both ratios defined when annual_income or property_value is 0.
C21_ZeroDenominatorsNeverRaise ==
    /\ Applied("score_from_form") =>
         /\ outcome = "returned"
         /\ report.risk_score \in 0..100
         /\ report.risk_category
              \in {"Low", "Moderate", "Elevated", "High", "Very High"}
         /\ report.ai_analysis # ""
         /\ arg.annual_income = 0 => report.dti_ratio = 500
         /\ arg.property_value = 0 => report.ltv_ratio = 1000
    /\ Applied("extract_traditional_features") =>
         /\ outcome = "returned"
         /\ val.debt_to_income_ratio \in Nat
         /\ val.loan_to_value_ratio \in Nat
         /\ val.annual_income = arg.annual_income
         /\ val.property_value = arg.property_value

\* C21 witness: both calls have run on a form without income and without
\* property value
C21_Witness ==
    /\ pc = "done" /\ outcome = "returned"
    /\ arg.annual_income = 0 /\ arg.property_value = 0
    /\ \/ fn = "score_from_form" /\ report.dti_ratio = 500
          /\ report.ltv_ratio = 1000
       \/ fn = "extract_traditional_features"
          /\ val.debt_to_income_ratio = 0 /\ val.loan_to_value_ratio = 0

-----------------------------------------------------------------------------
(* The James Morrison fixture *)

\* C22: the application with credit score 780, DTI 28, LTV 80, 8 years of
\* employment and 12 months of reserves, scored without feature groups, gets
\* risk_score 18, category "Low" and recommendation "Approve".
C22_JamesMorrisonIsLow ==
    (Returned /\ ~AnyGroup /\ MetricsAre(780, 280, 800, 80, 12)) =>
        /\ report.risk_score = 18
        /\ report.risk_category = "Low"
        /\ report.recommendation = "Approve"

\* C22 witness: the report for the metrics of the first TEST_CASES entry
C22_Witness ==
    /\ Returned
    /\ ~AnyGroup
    /\ \A key \in MetricKeys : application[key] = TEST_CASES[1][key]
    /\ report.credit_score = 780
    /\ report.risk_category = "Low"
    /\ report.recommendation = "Approve"

-----------------------------------------------------------------------------
(* The model input *)

\* C23: every value of to_model_input lies in [0, 1] when the raw fields
\* are within their documented domains, the all-defaults structs included.
C23_ModelInputInUnitRange ==
    Applied("to_model_input") =>
        \A name \in DOMAIN val : val[name] >= 0 /\ val[name] <= ScoreOne

\* C23 witness: an input built from counts beyond their saturation points
\* and a credit score of 850, whose normalised values are exactly 1.
C23_Witness ==
    /\ Applied("to_model_input")
    /\ arg.professional.current_job_months > 120
    /\ arg.traditional.credit_score = CreditHi
    /\ val.current_job_months_normalized = ScoreOne
    /\ val.credit_score_normalized = ScoreOne

-----------------------------------------------------------------------------
(* The backend risk calculator *)

\* the five bracket scores of the request the calculator was called on
BracketPoints ==
    assess_credit_risk(arg.credit_score).score
    + assess_dti_risk(estimate_dti(arg.loan_amount, arg.annual_income).v).score
    + assess_ltv_risk(calculate_ltv(arg.loan_amount, arg.estimated_value).v).score
    + assess_employment_risk(arg.years_employed).score
    + assess_income_risk(arg.annual_income).score

\* C24: calculate_risk returns a risk_score in [0, 100] for every valid
\* application; the five bracket scores add up to at most 120 and the score
\* is their sum clamped at 100.
C24_CalculatedScoreClamped ==
    Applied("calculate_risk") =>
        /\ outcome = "returned"
        /\ val.risk_score \in 0..100
        /\ BracketPoints <= 120
        /\ val.risk_score = Min(100, BracketPoints)

\* C24 witness: an application whose bracket scores add up to 120 and whose
\* risk_score is 100
C24_Witness ==
    /\ Applied("calculate_risk")
    /\ outcome = "returned"
    /\ BracketPoints = 120
    /\ val.risk_score = 100

-----------------------------------------------------------------------------
(* Failing extraction calls *)

\* the text extract_all_features hands to the extractor of a group, and
\* whether it calls that extractor at all
Attempted(group) ==
    /\ client = "configured"
    /\ \/ Truthy(arg[group])
       \/ group = "social" /\ Truthy(arg.lifestyle)

GroupDefaults(group) ==
    CASE group = "professional" -> ProfessionalFeatures
      [] group = "lifestyle" -> LifestyleFeatures
      [] OTHER -> SocialConnectednessFeatures

\* C25: with a client configured, an extractor whose extraction call raises
\* returns the all-defaults struct of its group (derived scores 0.5) and
\* raises nothing; extract_all_features then still returns a CombinedFeatures
\* with all four groups, the failed ones all-defaults; and no call of
\* extract_all_features ends in the "client required" ValueError.
C25_ExtractionFailureGivesDefaults ==
    /\ \A group \in GroupNames :
         ( Applied("extract_" \o group \o "_features")
           /\ client = "configured" /\ arg.response = "raises" ) =>
             /\ outcome = "returned"
             /\ val = GroupDefaults(group)
    /\ ( Applied("extract_all_features")
         /\ \A group \in GroupNames :
              Attempted(group) => arg.responses[group] # "list" ) =>
           /\ outcome = "returned"
           /\ DOMAIN val = {"traditional"} \cup GroupNames
           /\ \A group \in GroupNames :
                (Attempted(group) /\ arg.responses[group] = "raises") =>
                    val[group] = GroupDefaults(group)
    /\ (Applied("extract_all_features") /\ outcome = "raised") =>
           val.error # "ValueError"

\* C25 witness: extract_all_features has returned although the extraction
\* calls of the professional and the social group raised and the one of the
\* lifestyle group did not; the two failed groups are all-defaults with
\* derived scores of 0.5, the lifestyle group is the one that was built.
C25_Witness ==
    /\ Applied("extract_all_features")
    /\ outcome = "returned"
    /\ client = "configured"
    /\ \A group \in GroupNames : Truthy(arg[group])
    /\ arg.responses = [ professional |-> "raises", lifestyle |-> "rich",
                         social |-> "raises" ]
    /\ val.professional.job_stability_score = 5000
    /\ val.social.social_support_score = 5000
    /\ val.lifestyle = build_lifestyle_features(LifestyleExtraction)

-----------------------------------------------------------------------------
(* A better credit score *)

\* the rank of a risk category, from the lowest-risk band to the highest
CategoryRank(risk_category) ==
    CASE risk_category = "Low" -> 1
      [] risk_category = "Moderate" -> 2
      [] risk_category = "Elevated" -> 3
      [] risk_category = "High" -> 4
      [] OTHER -> 5

\* C26: of two applications that differ only in that the second has a
\* strictly higher credit score, both in [300, 850], the second gets a
\* risk_score no greater than the first's and a risk_category that is not a
\* higher-risk band.
C26_BetterCreditNeverWorse ==
    ( pc = "done" /\ fn = "score_application" /\ outcome = "returned"
      /\ first.outcome = "returned"
      /\ application.credit_score.val < arg ) =>
        /\ report.risk_score <= first.report.risk_score
        /\ CategoryRank(report.risk_category)
             <= CategoryRank(first.report.risk_category)

-----------------------------------------------------------------------------
(* Structs built from an empty extraction record *)

\* some group is passed, and every group passed was built by its _build_*
\* function from an extraction record without fields
EmptyBuilt ==
    /\ AnyGroup
    /\ professional.given =>
         professional.f = build_professional_features(EmptyExtraction)
    /\ lifestyle.given => lifestyle.f = build_lifestyle_features(EmptyExtraction)
    /\ social.given => social.f = build_social_features(EmptyExtraction)

\* C27 as stated: a struct built by _build_professional_features,
\* _build_lifestyle_features or _build_social_features from an extraction
\* record with no field present has the raw fields and derived scores (0.5)
\* of the all-defaults struct, so score_application gives
\* total_modifier_adjustment 0 and adds no factor strings.
C27_EmptyExtractionIsDefaults ==
    (Returned /\ EmptyBuilt) =>
        /\ professional.given => professional.f = ProfessionalFeatures
        /\ lifestyle.given => lifestyle.f = LifestyleFeatures
        /\ social.given => social.f = SocialConnectednessFeatures
        /\ \A key \in ScoreKeys : StoredScore(key) = 5000
        /\ report.total_modifier_adjustment = 0
        /\ Named(report.risk_factors) \subseteq MetricKeys
        /\ Named(report.positive_factors) \subseteq MetricKeys

\* C27 amended: such a struct has the fallbacks of its builder as raw fields
\* (the struct defaults, except jobs_last_5_years 1, authentic_connections
\* 0.8, community_involvement 0.3, geographic_stability 0.8) and the
\* derived-score formulas of those fields as derived scores: job_stability
\* 0.5, professional_credibility 0.225, lifestyle_stability 0.5,
\* income_lifestyle_alignment 1.0, social_support 0.24, community_rootedness
\* 0.41, relationship_stability 0.5.  Passed to score_application it
\* contributes the terms 1.1 (professional_credibility), -1.5
\* (income_lifestyle_alignment), 0.52 (social_support), 0.18
\* (community_rootedness) and 0 for the other scores; the three together
\* give total_modifier_adjustment 0.3, the risk factor for professional
\* credibility and the positive factor for income lifestyle alignment.
C27_EmptyExtractionOwnFallbacks ==
    (Returned /\ EmptyBuilt) =>
        /\ professional.given =>
             /\ professional.f =
                  [ ProfessionalFeatures EXCEPT
                      !.jobs_last_5_years = 1,
                      !.professional_credibility_score = 2250 ]
             /\ report.modifier_breakdown["professional_credibility"] = 110000
             /\ report.modifier_breakdown["job_stability"] = 0
             /\ "professional_credibility" \in Named(report.risk_factors)
        /\ lifestyle.given =>
             /\ lifestyle.f =
                  [ LifestyleFeatures EXCEPT
                      !.income_lifestyle_alignment = ScoreOne ]
             /\ report.modifier_breakdown["lifestyle_stability"] = 0
             /\ report.modifier_breakdown["income_lifestyle_alignment"]
                  = 0 - 150000
             /\ "income_lifestyle_alignment" \in Named(report.positive_factors)
        /\ social.given =>
             /\ social.f =
                  [ SocialConnectednessFeatures EXCEPT
                      !.authentic_connections = 80,
                      !.community_involvement = 30,
                      !.geographic_stability = 80,
                      !.social_support_score = 2400,
                      !.community_rootedness_score = 4100 ]
             /\ report.modifier_breakdown["social_support"] = 52000
             /\ report.modifier_breakdown["community_rootedness"] = 18000
             /\ report.modifier_breakdown["relationship_stability"] = 0
        /\ (professional.given /\ lifestyle.given /\ social.given) =>
             /\ report.total_modifier_adjustment = 30000
             /\ Named(report.risk_factors) \ MetricKeys
                  = {"professional_credibility"}
             /\ Named(report.positive_factors) \ MetricKeys
                  = {"income_lifestyle_alignment"}

\* C27 witness: a report for the three structs built from an empty
\* extraction record, with a modifier of 0.3
C27_Witness ==
    /\ Returned
    /\ professional.given /\ lifestyle.given /\ social.given
    /\ EmptyBuilt
    /\ social.f.social_support_score = 2400
    /\ report.total_modifier_adjustment = 30000

\* the modifier terms that can never pass the strict +1 / -1 thresholds
NeverSurfaced ==
    {"social_support", "community_rootedness", "relationship_stability",
     "isolation_flag"}

\* the modifier terms that can
MaySurface ==
    {"professional_credibility", "job_stability", "lifestyle_stability",
     "income_lifestyle_alignment", "gambling_flag", "substance_flag",
     "job_hopping_flag"}

\* C28: for a social group whose three derived scores lie in [0,1], neither
\* social_support, community_rootedness, relationship_stability nor the
\* isolation_flag is named in risk_factors or positive_factors: their terms
\* stay within [-1, +1] and a term is listed only when strictly beyond; the
\* lists name only the five metrics, the other four weighted scores and the
\* gambling, substance and job-hopping flags.
C28_SocialTermsNeverSurfaced ==
    ( /\ Returned
      /\ UsedSocial.social_support_score \in 0 .. ScoreOne
      /\ UsedSocial.community_rootedness_score \in 0 .. ScoreOne
      /\ UsedSocial.relationship_stability_score \in 0 .. ScoreOne ) =>
        LET listed == Named(report.risk_factors)
                        \cup Named(report.positive_factors)
        IN  /\ listed \cap NeverSurfaced = {}
            /\ listed \subseteq MetricKeys \cup MaySurface

\* C28 witness: a report for a social group with social_support 0 and the
\* isolation flag set, whose terms are both exactly +1 and unlisted, while
\* the job-hopping flag of the same call is listed as a risk factor.
C28_Witness ==
    /\ Returned
    /\ social.given
    /\ social.f.social_support_score = 0
    /\ social.f.community_rootedness_score = ScoreOne
    /\ social.f.social_isolation_indicators
    /\ report.modifier_breakdown.social_support = 1 * Unit
    /\ report.modifier_breakdown.community_rootedness = 0 - 1 * Unit
    /\ report.modifier_breakdown.isolation_flag = 1 * Unit
    /\ "job_hopping_flag" \in Named(report.risk_factors)
    /\ Named(report.risk_factors) \cap NeverSurfaced = {}
    /\ Named(report.positive_factors) \cap NeverSurfaced = {}

C30_SavedRiskScoreInRange ==
    (fn = "create_loan_application" /\ outcome = "200") =>
        LET saved == _applications[report.application_id]
        IN  /\ saved.risk_score \in 0 .. 100
            /\ report.risk_assessment.risk_score \in 0 .. 100
            /\ saved.full_response.val.risk_assessment.risk_score \in 0 .. 100
            /\ saved.status = report.status
            /\ saved.status =
                   IF saved.risk_score <= 35 THEN "approved"
                   ELSE IF saved.risk_score <= 60 THEN "review"
                   ELSE "declined"

=============================================================================
